---- MODULE Spec2Model ----
(***************************************************************************)
(* A model of the Slack-facing personal assistant:                         *)
(*   src/main.py        the webhook endpoint slack_events and the          *)
(*                      background handler handle_app_mention              *)
(*   src/src/agents.py  PersonalAssistantOrchestrator: lazy agent          *)
(*                      initialisation and process_request                 *)
(* Python values are tagged records [t, v]; exceptions are instances of    *)
(* Exception, identified by their message (str(e)).  Every await is a      *)
(* suspension point: one action runs the code between two awaits.          *)
(***************************************************************************)
EXTENDS Naturals, Integers, Sequences, FiniteSets, TLC

\* ------------------------------------------------------------------ bounds
\* webhook deliveries accepted as mentions in one run of the model
MaxMentions == 2
\* longest message sequence a collaboration run returns in the model
MaxMsgs == 2
\* the clock reading (seconds) at which the modelled deliveries arrive
Epoch == 1000

\* ------------------------------------------------------- program constants
\* 60 * 5, the replay window of slack_events in seconds
ReplayWindow == 300

\* ---------------------------------------------------------- Python values
Str(s) == [t |-> "str", v |-> s]
NoneV == [t |-> "none", v |-> ""]
\* a non-empty list (truthy, not a str), named by its string form
ListV(r) == [t |-> "list", v |-> r]
\* the empty list (falsy, not a str)
EmptyList == [t |-> "list", v |-> "[]"]
\* a dict holding the key "response" with the str value r
DictV(r) == [t |-> "dict", v |-> r]

IsStr(x) == x.t = "str"

\* Python truth value of a modelled value
Truthy(x) ==
    CASE x.t = "none" -> FALSE
      [] x.t = "str"  -> x.v # ""
      [] x.t = "list" -> x.v # "[]"
      [] OTHER        -> TRUE

\* ------------------------------------------------- attributes of a message
\* An attribute of a message record is absent (hasattr is False), holds a
\* value, is a property that raises an Exception other than AttributeError
\* on every access ("raise": hasattr itself raises), or is a property that
\* answers hasattr and raises on the next access ("late").
Absent == [k |-> "absent", v |-> NoneV, m |-> ""]
Has(x) == [k |-> "val", v |-> x, m |-> ""]
Raises(msg) == [k |-> "raise", v |-> NoneV, m |-> msg]
RaisesLate(msg) == [k |-> "late", v |-> NoneV, m |-> msg]

NameAttrs == <<"sender", "author", "agent", "role">>
ContentAttrs == <<"text", "message", "body">>

\* The outcome of evaluating an expression: a value, or a raised Exception.
Ok(x) == [ok |-> TRUE, v |-> x, m |-> ""]
Exc(msg) == [ok |-> FALSE, v |-> NoneV, m |-> msg]
\* the same, where the value expected is a list, or a text
ExcList(msg) == [ok |-> FALSE, v |-> <<>>, m |-> msg]
ExcText(msg) == [ok |-> FALSE, v |-> "", m |-> msg]

\* ---------------------------------------------------------------- messages
\* A message of a collaboration result: its type name, its attributes and
\* the outcome of str(msg).
AttrNames == {"src", "sender", "author", "agent", "role",
              "content", "text", "message", "body"}

Msg(cls, src, sender, content, text, strform) ==
    [cls |-> cls,
     attrs |-> [a \in AttrNames |->
                  CASE a = "src"     -> src
                    [] a = "sender"  -> sender
                    [] a = "content" -> content
                    [] a = "text"    -> text
                    [] OTHER         -> Absent],
     str |-> strform]

\* hasattr(msg, a): True, False, or the Exception a raising property lets through
HasAttr(msg, a) ==
    LET s == msg.attrs[a] IN
    CASE s.k = "absent" -> Ok(FALSE)
      [] s.k = "raise"  -> Exc(s.m)
      [] OTHER          -> Ok(TRUE)

\* getattr(msg, a) once hasattr(msg, a) has answered True
GetAttr(msg, a) ==
    LET s == msg.attrs[a] IN
    IF s.k = "val" THEN Ok(s.v) ELSE Exc(s.m)

\* agents.py 213-221: the first of attrs[i..] that is present and not None;
\* a getattr that raises counts as None, a hasattr that raises propagates
RECURSIVE FirstAttr(_, _, _)
FirstAttr(msg, attrs, i) ==
    IF i > Len(attrs) THEN Ok(NoneV)
    ELSE LET h == HasAttr(msg, attrs[i]) IN
         IF ~h.ok THEN Exc(h.m)
         ELSE IF ~h.v THEN FirstAttr(msg, attrs, i + 1)
         ELSE LET g == GetAttr(msg, attrs[i])
                  val == IF g.ok THEN g.v ELSE NoneV
              IN IF val # NoneV THEN Ok(val) ELSE FirstAttr(msg, attrs, i + 1)


\* mutant: a src holding None is skipped like the other name attributes
resolve_name_src_skipped(msg) ==
    LET f == FirstAttr(msg, <<"src", "sender", "author", "agent", "role">>, 1) IN
    IF ~f.ok THEN f
    ELSE IF f.v # NoneV THEN f ELSE Ok(Str(msg.cls))

\* agents.py 208-223: the display name logged for a message
resolve_name(msg) ==
    LET h == HasAttr(msg, "src") IN
    IF ~h.ok THEN Exc(h.m)
    ELSE IF h.v THEN GetAttr(msg, "src")
    ELSE LET f == FirstAttr(msg, NameAttrs, 1) IN
         IF ~f.ok THEN f
         ELSE IF f.v # NoneV THEN f ELSE Ok(Str(msg.cls))

\* agents.py 226-242: the content logged for a message
resolve_content(msg) ==
    LET h == HasAttr(msg, "content") IN
    IF ~h.ok THEN Exc(h.m)
    ELSE LET c == IF h.v
                  THEN LET g == GetAttr(msg, "content")
                       IN IF g.ok THEN g.v ELSE NoneV
                  ELSE NoneV
         IN IF c # NoneV THEN Ok(c)
            ELSE LET f == FirstAttr(msg, ContentAttrs, 1) IN
                 IF ~f.ok THEN f
                 ELSE IF f.v # NoneV THEN f ELSE msg.str

\* agents.py 206-244: the loop over the messages; the steps logged, or the
\* first Exception that leaves the loop
RECURSIVE log_steps(_, _, _)
log_steps(msgs, i, acc) ==
    IF i > Len(msgs) THEN [ok |-> TRUE, steps |-> acc, m |-> ""]
    ELSE LET n == resolve_name(msgs[i]) IN
         IF ~n.ok THEN [ok |-> FALSE, steps |-> acc, m |-> n.m]
         ELSE LET c == resolve_content(msgs[i]) IN
              IF ~c.ok THEN [ok |-> FALSE, steps |-> acc, m |-> c.m]
              ELSE log_steps(msgs, i + 1,
                             Append(acc, [idx |-> i, name |-> n.v, content |-> c.v]))

\* mutant: the fallback to str() is taken only when the content is None
final_content_not_none(final_msg) ==
    LET s == final_msg.attrs["content"] IN
    IF s.k \in {"raise", "late"} THEN Exc(s.m)
    ELSE LET c == IF s.k = "val" THEN s.v ELSE NoneV IN
         IF c # NoneV THEN Ok(c) ELSE final_msg.str

\* agents.py 247-248: getattr(final_msg, "content", None) or str(final_msg)
final_content(final_msg) ==
    LET s == final_msg.attrs["content"] IN
    IF s.k \in {"raise", "late"} THEN Exc(s.m)
    ELSE LET c == IF s.k = "val" THEN s.v ELSE NoneV IN
         IF Truthy(c) THEN Ok(c) ELSE final_msg.str

\* ---------------------------------------------------- collaboration result
\* What team.run does: raise, or return a result whose messages attribute is
\* missing, None, or a sequence of messages.
RunRaises(msg) == [k |-> "raise", m |-> msg, msgs |-> <<>>]
RunNoAttr == [k |-> "noattr", m |-> "", msgs |-> <<>>]
RunNone == [k |-> "none", m |-> "", msgs |-> <<>>]
RunReturns(msgs) == [k |-> "msgs", m |-> "", msgs |-> msgs]

\* mutant: the result is not tested for messages before the loop
try_body_untested(run) ==
    IF run.k = "raise" THEN Exc(run.m)
    ELSE IF run.k \in {"noattr", "none"}
    THEN Exc("'NoneType' object is not iterable")
    ELSE IF run.msgs = <<>> THEN Exc("list index out of range")
    ELSE LET l == log_steps(run.msgs, 1, <<>>) IN
         IF ~l.ok THEN Exc(l.m)
         ELSE final_content(run.msgs[Len(run.msgs)])

\* agents.py 197-251: the body of the try of process_request from the return
\* of team.run on: the value returned, or the Exception raised
try_body(run) ==
    IF run.k = "raise" THEN Exc(run.m)
    ELSE IF run.k \in {"noattr", "none"} \/ run.msgs = <<>>
    THEN Ok(Str("No response generated"))
    ELSE LET l == log_steps(run.msgs, 1, <<>>) IN
         IF ~l.ok THEN Exc(l.m)
         ELSE final_content(run.msgs[Len(run.msgs)])

\* agents.py 200-247: how many messages of the result the body looks at
messages_inspected(run) ==
    IF run.k # "msgs" \/ run.msgs = <<>> THEN 0
    ELSE LET l == log_steps(run.msgs, 1, <<>>) IN
         IF l.ok THEN Len(run.msgs) ELSE Len(l.steps) + 1

\* mutant: the except clause returns the bare message
error_string_bare(msg) == Str(msg)

\* agents.py 255: the string the except clause returns for an Exception
error_string(msg) == Str("Error: " \o msg)

\* mutant: process_request has no except clause
process_request_return_uncaught(outcome) ==
    IF outcome.ok
    THEN [value |-> outcome.v, raised |-> FALSE]
    ELSE [value |-> NoneV, raised |-> TRUE]

\* agents.py 180, 253-255: the try/except of process_request around an
\* outcome of its body; raised is TRUE when an Exception leaves the call
process_request_return(outcome) ==
    IF outcome.ok
    THEN [value |-> outcome.v, raised |-> FALSE]
    ELSE [value |-> error_string(outcome.m), raised |-> FALSE]

\* ------------------------------------------------------------------- state
VARIABLES
    agents_initialized,   \* PersonalAssistantOrchestrator._agents_initialized
    agent_fields,         \* email_agent, weather_agent, calendar_agent, search_agent
    agent_list,           \* PersonalAssistantOrchestrator.agent_list
    conversation_context, \* PersonalAssistantOrchestrator.conversation_context
    tasks,                \* the background tasks added by slack_events, in order
    req,                  \* the last request to POST /slack/events
    resp,                 \* the response to it
    verifier_calls,       \* calls of verifier.is_valid made for it
    scheduled,            \* background tasks added for it
    gathers,              \* runs of the four-way gather (agents.py 159) so far
    assigned,             \* the agent lists assigned to agent_list so far
    invocation,           \* the operation exercised on its own, with its inputs
    effect                \* what that operation did

vars == <<agents_initialized, agent_fields, agent_list, conversation_context,
          tasks, req, resp, verifier_calls, scheduled, gathers, assigned,
          invocation, effect>>

orch_vars == <<agents_initialized, agent_fields, agent_list, conversation_context,
               gathers, assigned>>

web_vars == <<req, resp, verifier_calls, scheduled>>

op_vars == <<invocation, effect>>

\* ------------------------------------------------------------------ agents
Roles == <<"email", "weather", "calendar", "search">>
RoleSet == {Roles[i] : i \in 1..Len(Roles)}

\* None, in an agent field
NoAgent == [name |-> "None", by |-> 0]
\* None, in agent_list
NoList == <<>>

\* agents.py 44-123: the agent a constructor returns; `by` names the gather
\* that ran the constructor, so two constructions give two distinct agents
create_agent(role, by) == [name |-> role, by |-> by]

\* mutant: the list is built in the alphabetical order of the roles
build_agent_list_alphabetical(fields) ==
    <<fields["calendar"], fields["email"], fields["search"], fields["weather"]>>

\* agents.py 166-171: the list built from the four fields
build_agent_list(fields) == [i \in 1..Len(Roles) |-> fields[Roles[i]]]

\* ------------------------------------------------------------------ events
\* The mention events of the model: event.channel, event.ts, event.text.
\* Slack gives every event its own ts; the first one has an empty text.
Channels == <<"C1", "C2">>
EventNo(n) ==
    [channel |-> Channels[((n - 1) % Len(Channels)) + 1], ts |-> n,
     text |-> IF n = 1 THEN "" ELSE "what is the weather"]
Events == {EventNo(n) : n \in 1..Len(Channels)}

\* main.py 33: the text of the acknowledgment
AckText == Str("I am processing your request, please allow me sometime to respond.")

\* mutant: the post is sent to the channel, outside the thread
Post_unthreaded(channel, text, thread_ts) ==
    [channel |-> channel, text |-> text, thread_ts |-> 0]

\* main.py 31-35, 42-46: one chat_postMessage call, by its arguments
Post(channel, text, thread_ts) ==
    [channel |-> channel, text |-> text, thread_ts |-> thread_ts]


\* team.run has not answered in this call of process_request
NotRun == [ok |-> FALSE, v |-> NoneV, m |-> "not run"]

\* mutant: slack_events awaits the handler instead of adding a task, so the
\* handler has issued its first post when the response is produced
NewTask_awaited(event) ==
    [event |-> event, pc |-> "ack", built |-> {}, team |-> NoList,
     pr |-> "none", result |-> NoneV, caught |-> "-",
     posts |-> <<[channel |-> event.channel, text |-> AckText, thread_ts |-> event.ts]>>,
     delivered |-> 0, failure |-> "none", escaped |-> FALSE,
     inits |-> 0, runs |-> 0, ran |-> NotRun]

\* main.py 75: a background task as add_task leaves it
\*   pc        where the handler is: "queued", "ack" (awaiting the first
\*             post), "gather" (awaiting the agents), "run" (awaiting
\*             team.run), "returned" (process_request has returned), "done"
\*   built     the roles whose constructor has completed in this task's gather
\*   team      the participants handed to MagenticOneGroupChat
\*   pr        what process_request did: "none" yet, "returned", "raised"
\*   result    the value process_request returned
\*   caught    the message of the Exception that reached the except clause
\*             of process_request ("-" when none did)
\*   posts     the chat_postMessage calls issued, in order
\*   delivered how many of them returned
\*   failure   where the Exception the handler caught came from ("none",
\*             "ack_post", "process_request", "reply_text", "final_post")
\*   escaped   an Exception left the handler
\*   inits     runs of the four-way gather started by this call of
\*             process_request
\*   runs      calls of team.run made by this call of process_request
\*   ran       what the body of process_request ended with once team.run had
\*             answered (NotRun while it has not)
NewTask(event) ==
    [event |-> event, pc |-> "queued", built |-> {}, team |-> NoList,
     pr |-> "none", result |-> NoneV, caught |-> "-",
     posts |-> <<>>, delivered |-> 0, failure |-> "none", escaped |-> FALSE,
     inits |-> 0, runs |-> 0, ran |-> NotRun]

TaskIds == 1..Len(tasks)

\* no operation has been exercised on its own
NoCall == [op |-> "none"]
NoEffect == [op |-> "none"]

\* ----------------------------------------------------------------- webhook
Abs(x) == IF x < 0 THEN -x ELSE x

\* The X-Slack-Request-Timestamp header: absent, not an integer, or an integer.
TsAbsent == [k |-> "absent", v |-> 0]
TsNonInt == [k |-> "nonint", v |-> 0]
TsInt(n) == [k |-> "int", v |-> n]

\* payload["event"]: missing, not a dict, or a dict with a type and the fields
\* of an event
EvAbsent == [k |-> "absent", type |-> "", ev |-> EventNo(1)]
EvNonDict == [k |-> "nondict", type |-> "", ev |-> EventNo(1)]
EvDict(type, e) == [k |-> "dict", type |-> type, ev |-> e]

\* A request: the body ("badjson", "nonobject" or "object"), payload["type"]
\* ("" when missing), payload["challenge"] (None when missing), the event,
\* the two headers and time.time() at the check.
Request(body, type, challenge, event, ts, sig, now) ==
    [body |-> body, type |-> type, challenge |-> challenge, event |-> event,
     ts |-> ts, sig |-> sig, now |-> now]

NoReq == Request("none", "", NoneV, EvAbsent, TsAbsent, "absent", 0)

\* A response: the status, the key of the JSON body and its value.
Http(status, body, value) == [status |-> status, body |-> body, value |-> value]

NoResp == Http(0, "none", NoneV)

\* what slack_events does with a request: the response, the calls of
\* verifier.is_valid, and the events handed to background_tasks.add_task
Outcome(response, verified, add) ==
    [resp |-> response, verified |-> verified, add |-> add]

\* an Exception that leaves slack_events: the framework answers 500
ServerError(name) == Outcome(Http(500, "error", Str(name)), 0, <<>>)

\* main.py 66-70: SignatureVerifier.is_valid, decided by the signature header
\* ("absent", "invalid", "valid")
verifier_is_valid(r) == r.sig = "valid"

\* mutant: the difference is taken without abs(), so a timestamp from the
\* future is never rejected
timestamp_rejected_no_abs(r) ==
    IF r.ts.k = "absent" THEN Ok(TRUE)
    ELSE IF r.ts.k = "nonint" THEN Exc("ValueError")
    ELSE Ok(r.now - r.ts.v > ReplayWindow)

\* main.py 63: the timestamp condition; int() of a header that is not an
\* integer raises ValueError
timestamp_rejected(r) ==
    IF r.ts.k = "absent" THEN Ok(TRUE)
    ELSE IF r.ts.k = "nonint" THEN Exc("ValueError")
    ELSE Ok(Abs(r.now - r.ts.v) > ReplayWindow)

\* mutant: the result of the verifier is not negated
signature_rejected_inverted(r) == verifier_is_valid(r)

\* main.py 66-71: the signature condition
signature_rejected(r) == ~verifier_is_valid(r)


\* mutant: an event that was scheduled before is acknowledged and dropped
dispatch_deduplicating(r) ==
    IF r.event.k = "nondict"
    THEN [ServerError("AttributeError") EXCEPT !.verified = 1]
    ELSE IF /\ r.event.k = "dict" /\ r.event.type = "app_mention"
            /\ \A i \in TaskIds : tasks[i].event # r.event.ev
    THEN Outcome(Http(200, "ok", Str("true")), 1, <<r.event.ev>>)
    ELSE Outcome(Http(200, "ok", Str("true")), 1, <<>>)

\* main.py 73-77: the event filter and the acknowledgment
dispatch(r) ==
    IF r.event.k = "nondict"
    THEN [ServerError("AttributeError") EXCEPT !.verified = 1]
    ELSE IF r.event.k = "dict" /\ r.event.type = "app_mention"
    THEN Outcome(Http(200, "ok", Str("true")), 1, <<r.event.ev>>)
    ELSE Outcome(Http(200, "ok", Str("true")), 1, <<>>)

\* main.py 63-77: slack_events after the handshake
after_handshake(r) ==
    LET t == timestamp_rejected(r) IN
    IF ~t.ok THEN ServerError(t.m)
    ELSE IF t.v THEN Outcome(Http(400, "detail", Str("Invalid timestamp")), 0, <<>>)
    ELSE IF signature_rejected(r)
    THEN Outcome(Http(400, "detail", Str("Invalid Slack signature")), 1, <<>>)
    ELSE dispatch(r)

\* main.py 60-61: the challenge echo
challenge_echo(r) == Outcome(Http(200, "challenge", r.challenge), 0, <<>>)

\* mutant: the timestamp and the signature are checked before the handshake
slack_events_checks_first(r) ==
    IF r.body = "badjson" THEN ServerError("JSONDecodeError")
    ELSE IF r.body = "nonobject" THEN ServerError("AttributeError")
    ELSE LET a == after_handshake(r) IN
         IF a.resp.status # 200 THEN a
         ELSE IF r.type = "url_verification" THEN challenge_echo(r)
         ELSE a

\* main.py 57-77: slack_events as a function of the request
slack_events_result(r) ==
    IF r.body = "badjson" THEN ServerError("JSONDecodeError")
    ELSE IF r.body = "nonobject" THEN ServerError("AttributeError")
    ELSE IF r.type = "url_verification" THEN challenge_echo(r)
    ELSE after_handshake(r)

\* main.py 50-77: one request to POST /slack/events
slack_events(r) ==
    LET out == slack_events_result(r) IN
    /\ Len(tasks) + Len(out.add) <= MaxMentions
    /\ req' = r
    /\ resp' = out.resp
    /\ verifier_calls' = out.verified
    /\ scheduled' = Len(out.add)
    /\ tasks' = tasks \o [i \in 1..Len(out.add) |-> NewTask(out.add[i])]
    /\ UNCHANGED <<orch_vars, op_vars>>

\* ------------------------------------------------------ handle_app_mention
\* mutant: the except clause tells the user that the request failed
handler_except_notifies(t, site) ==
    [t EXCEPT !.pc = "done", !.failure = site, !.built = {}, !.team = NoList,
              !.posts = Append(@, [channel |-> t.event.channel,
                                   text |-> Str("Sorry, something went wrong."),
                                   thread_ts |-> t.event.ts])]

\* main.py 47-48: the except clause of the handler: the Exception raised at
\* `site` is printed and the handler returns
handler_except(t, site) ==
    [t EXCEPT !.pc = "done", !.failure = site, !.built = {}, !.team = NoList]

\* main.py 39: reply_text = result if isinstance(result, str)
\*                          else result.get("response", str(result))
reply_text(result) ==
    CASE IsStr(result)     -> Ok(result)
      [] result.t = "dict" -> Ok(Str(result.v))
      [] OTHER             -> Exc("object has no attribute 'get'")


\* mutant: the orchestrator answers from what an earlier request returned
finish_request_remembering(t, outcome) ==
    LET ret == process_request_return(outcome)
        earlier == {j \in TaskIds : tasks[j].pr = "returned"}
    IN
    IF ret.raised
    THEN handler_except([t EXCEPT !.pr = "raised"], "process_request")
    ELSE [t EXCEPT !.pc = "returned", !.pr = "returned",
                   !.result = IF earlier = {} THEN ret.value
                              ELSE tasks[CHOOSE j \in earlier : TRUE].result,
                   !.caught = IF outcome.ok THEN "-" ELSE outcome.m,
                   !.built = {}, !.team = NoList]

\* main.py 38, agents.py 178-255: process_request ends with `outcome` of its
\* body; the handler goes on with the value returned
finish_request(t, outcome) ==
    LET ret == process_request_return(outcome) IN
    IF ret.raised
    THEN handler_except([t EXCEPT !.pr = "raised"], "process_request")
    ELSE [t EXCEPT !.pc = "returned", !.pr = "returned", !.result = ret.value,
                   !.caught = IF outcome.ok THEN "-" ELSE outcome.m,
                   !.built = {}, !.team = NoList]


\* mutant: the team is built from agent_list as it was when the call began
start_run_stale(t, participants) ==
    [t EXCEPT !.pc = "run", !.team = agent_list, !.built = {}, !.runs = @ + 1]

\* agents.py 188-197: the team is built from agent_list and team.run is
\* awaited (a MagenticOneGroupChat that raises is a run that raises: nothing
\* of the orchestrator changes between the two)
start_run(t, participants) ==
    [t EXCEPT !.pc = "run", !.team = participants, !.built = {}, !.runs = @ + 1]

\* mutant: the test also passes once an initialization has been started
already_initialized_latched == agents_initialized \/ gathers > 0

\* agents.py 153: the guard of _initialize_agents
already_initialized == agents_initialized

\* main.py 24-35: the handler starts, issues the acknowledgment post and
\* awaits it
HandlerStart(i) ==
    LET t == tasks[i] IN
    /\ t.pc = "queued"
    /\ tasks' = [tasks EXCEPT ![i] =
          [t EXCEPT !.pc = "ack",
                    !.posts = Append(@, Post(t.event.channel, AckText, t.event.ts))]]
    /\ UNCHANGED <<orch_vars, web_vars, op_vars>>

\* main.py 31-35, 47-48: the acknowledgment post raises
AckFails(i) ==
    /\ tasks[i].pc = "ack"
    /\ tasks' = [tasks EXCEPT ![i] = handler_except(@, "ack_post")]
    /\ UNCHANGED <<orch_vars, web_vars, op_vars>>

\* main.py 31-38, agents.py 180-197, 151-164: the acknowledgment post returns,
\* process_request is entered, and either the agents are there and team.run
\* is awaited, or the four constructors are started and the gather awaited
AckPosted(i) ==
    LET t == tasks[i]
        acked == [t EXCEPT !.delivered = @ + 1]
    IN
    /\ t.pc = "ack"
    /\ IF already_initialized
       THEN /\ tasks' = [tasks EXCEPT ![i] = start_run(acked, agent_list)]
            /\ UNCHANGED gathers
       ELSE /\ tasks' = [tasks EXCEPT ![i] =
                           [acked EXCEPT !.pc = "gather", !.inits = @ + 1]]
            /\ gathers' = gathers + 1
    /\ UNCHANGED <<agents_initialized, agent_fields, agent_list,
                   conversation_context, assigned, web_vars, op_vars>>

\* agents.py 44-123, 159-164: one of the four constructors of a gather completes
ConstructDone(i, role) ==
    /\ tasks[i].pc = "gather"
    /\ role \notin tasks[i].built
    /\ tasks' = [tasks EXCEPT ![i] = [@ EXCEPT !.built = @ \cup {role}]]
    /\ UNCHANGED <<orch_vars, web_vars, op_vars>>


\* mutant: the agents already constructed are stored when the gather raises
ConstructRaises_storing(i, role) ==
    /\ tasks[i].pc = "gather"
    /\ role \notin tasks[i].built
    /\ tasks' = [tasks EXCEPT ![i] = finish_request(@, Exc("No time zone found"))]
    /\ agent_fields' = [r \in RoleSet |->
                          IF r \in tasks[i].built THEN create_agent(r, i)
                          ELSE agent_fields[r]]
    /\ UNCHANGED <<agents_initialized, agent_list, conversation_context, gathers,
                   assigned, web_vars, op_vars>>

\* agents.py 159-164, 253-255: one of the four constructors raises; the gather
\* raises it to _initialize_agents, which assigns nothing
ConstructRaises(i, role) ==
    /\ tasks[i].pc = "gather"
    /\ role \notin tasks[i].built
    /\ tasks' = [tasks EXCEPT ![i] = finish_request(@, Exc("No time zone found"))]
    /\ UNCHANGED <<orch_vars, web_vars, op_vars>>

\* agents.py 159-174, 188-197: the gather returns the four agents; the fields,
\* agent_list and the flag are assigned, and team.run is awaited
GatherJoin(i) ==
    LET fields == [r \in RoleSet |-> create_agent(r, i)]
        list == build_agent_list(fields)
    IN
    /\ tasks[i].pc = "gather"
    /\ tasks[i].built = RoleSet
    /\ agent_fields' = fields
    /\ agent_list' = list
    /\ agents_initialized' = TRUE
    /\ assigned' = assigned \cup {list}
    /\ tasks' = [tasks EXCEPT ![i] = start_run(@, list)]
    /\ UNCHANGED <<conversation_context, gathers, web_vars, op_vars>>

\* agents.py 197-255, main.py 38: team.run ends, the rest of the body of
\* process_request ends with `outcome`, and process_request returns
RunEnds(i, outcome) ==
    /\ tasks[i].pc = "run"
    /\ tasks' = [tasks EXCEPT ![i] = finish_request([@ EXCEPT !.ran = outcome], outcome)]
    /\ UNCHANGED <<orch_vars, web_vars, op_vars>>

\* main.py 39-48: the reply text is taken from the result and posted to the
\* thread; postOk is FALSE when chat_postMessage raises
FinalPost(i, postOk) ==
    LET t == tasks[i]
        rt == reply_text(t.result)
        called == [t EXCEPT !.posts = Append(@, Post(t.event.channel, rt.v, t.event.ts))]
    IN
    /\ t.pc = "returned"
    /\ tasks' = [tasks EXCEPT ![i] =
          IF ~rt.ok THEN handler_except(t, "reply_text")
          ELSE IF ~postOk THEN handler_except(called, "final_post")
          ELSE [called EXCEPT !.pc = "done", !.delivered = @ + 1]]
    /\ UNCHANGED <<orch_vars, web_vars, op_vars>>

\* ----------------------------------------------------------------- strings
\* Python str operations used by the tool adapters, on TLA+ strings.
CharAt(s, i) == SubSeq(s, i, i)

\* the characters str.strip() removes at both ends
Blank(c) == c \in {" ", "\t", "\n"}

RECURSIVE lstrip(_)
lstrip(s) ==
    IF Len(s) > 0 /\ Blank(CharAt(s, 1)) THEN lstrip(SubSeq(s, 2, Len(s))) ELSE s

RECURSIVE rstrip(_)
rstrip(s) ==
    IF Len(s) > 0 /\ Blank(CharAt(s, Len(s))) THEN rstrip(SubSeq(s, 1, Len(s) - 1)) ELSE s

\* str.strip()
strip(s) == rstrip(lstrip(s))

\* str.startswith(p), str.endswith(p)
startswith(s, p) == Len(s) >= Len(p) /\ SubSeq(s, 1, Len(p)) = p
endswith(s, p) == Len(s) >= Len(p) /\ SubSeq(s, Len(s) - Len(p) + 1, Len(s)) = p

\* the position of the first occurrence of p in s at or after i, 0 when none
RECURSIVE find(_, _, _)
find(s, p, i) ==
    IF i + Len(p) - 1 > Len(s) THEN 0
    ELSE IF SubSeq(s, i, i + Len(p) - 1) = p THEN i
    ELSE find(s, p, i + 1)

\* `p in s`
contains(s, p) == find(s, p, 1) > 0

\* str.split(sep), sep a non-empty string
RECURSIVE split(_, _)
split(s, sep) ==
    LET k == find(s, sep, 1) IN
    IF k = 0 THEN <<s>>
    ELSE <<SubSeq(s, 1, k - 1)>> \o split(SubSeq(s, k + Len(sep), Len(s)), sep)

\* str.split(sep, 1)
split_once(s, sep) ==
    LET k == find(s, sep, 1) IN
    IF k = 0 THEN <<s>>
    ELSE <<SubSeq(s, 1, k - 1), SubSeq(s, k + Len(sep), Len(s))>>

\* str.split(): the words between runs of blanks
RECURSIVE words(_)
words(s) ==
    LET t == lstrip(s) IN
    IF t = "" THEN <<>>
    ELSE LET k == find(t, " ", 1) IN
         IF k = 0 THEN <<rstrip(t)>>
         ELSE <<SubSeq(t, 1, k - 1)>> \o words(SubSeq(t, k + 1, Len(t)))

UpperCase == "ABCDEFGHIJKLMNOPQRSTUVWXYZ"
LowerCase == "abcdefghijklmnopqrstuvwxyz"

\* the letter c in the other case when it is a letter of `from`
Recase(c, from, to) ==
    LET k == find(from, c, 1) IN IF k = 0 THEN c ELSE CharAt(to, k)

RECURSIVE MapCase(_, _, _)
MapCase(s, from, to) ==
    IF s = "" THEN ""
    ELSE Recase(CharAt(s, 1), from, to) \o MapCase(SubSeq(s, 2, Len(s)), from, to)

\* str.lower(), str.upper()
lower(s) == MapCase(s, UpperCase, LowerCase)
upper(s) == MapCase(s, LowerCase, UpperCase)

\* str.replace(x, "") for a one-character x
RECURSIVE remove_char(_, _)
remove_char(s, x) ==
    IF s = "" THEN ""
    ELSE (IF CharAt(s, 1) = x THEN "" ELSE CharAt(s, 1))
         \o remove_char(SubSeq(s, 2, Len(s)), x)

\* sep.join(parts)
RECURSIVE join(_, _)
join(parts, sep) ==
    IF Len(parts) = 0 THEN ""
    ELSE IF Len(parts) = 1 THEN parts[1]
    ELSE parts[1] \o sep \o join(Tail(parts), sep)

Digits == "0123456789"
IsDigit(c) == Len(c) = 1 /\ find(Digits, c, 1) > 0
AllDigits(s) == Len(s) > 0 /\ \A i \in 1..Len(s) : IsDigit(CharAt(s, i))

\* the number a string of digits denotes
RECURSIVE DigitsValue(_)
DigitsValue(s) ==
    IF s = "" THEN 0
    ELSE 10 * DigitsValue(SubSeq(s, 1, Len(s) - 1))
         + (find(Digits, CharAt(s, Len(s)), 1) - 1)

\* a natural number in decimal, padded with zeros to `width` digits
RECURSIVE Decimal(_, _)
Decimal(n, width) ==
    IF n < 10 /\ width <= 1 THEN CharAt(Digits, n + 1)
    ELSE Decimal(n \div 10, width - 1) \o CharAt(Digits, (n % 10) + 1)

\* --------------------------------------------------------------- datetimes
IsLeap(y) == (y % 4 = 0 /\ y % 100 # 0) \/ y % 400 = 0

DaysInMonth(y, m) ==
    IF m = 2 THEN (IF IsLeap(y) THEN 29 ELSE 28)
    ELSE IF m \in {4, 6, 9, 11} THEN 30 ELSE 31

\* a naive datetime
DateTime(y, mo, d, h, mi, sec) ==
    [y |-> y, mo |-> mo, d |-> d, h |-> h, mi |-> mi, s |-> sec]

\* calendar.py 73: datetime.fromisoformat(f"{date_str}T{time_str}") for a
\* date written YYYY-MM-DD and a time written HH:MM; anything else that is
\* not of this shape is the ValueError of a string that cannot be parsed
fromisoformat(date_str, time_str) ==
    LET text == date_str \o "T" \o time_str
        shaped ==
            /\ Len(date_str) = 10 /\ Len(time_str) = 5
            /\ AllDigits(SubSeq(date_str, 1, 4)) /\ CharAt(date_str, 5) = "-"
            /\ AllDigits(SubSeq(date_str, 6, 7)) /\ CharAt(date_str, 8) = "-"
            /\ AllDigits(SubSeq(date_str, 9, 10))
            /\ AllDigits(SubSeq(time_str, 1, 2)) /\ CharAt(time_str, 3) = ":"
            /\ AllDigits(SubSeq(time_str, 4, 5))
        y == DigitsValue(SubSeq(date_str, 1, 4))
        mo == DigitsValue(SubSeq(date_str, 6, 7))
        d == DigitsValue(SubSeq(date_str, 9, 10))
        h == DigitsValue(SubSeq(time_str, 1, 2))
        mi == DigitsValue(SubSeq(time_str, 4, 5))
    IN
    IF ~shaped THEN Exc("Invalid isoformat string: '" \o text \o "'")
    ELSE IF y < 1 THEN Exc("year 0 is out of range")
    ELSE IF mo \notin 1..12 THEN Exc("month must be in 1..12")
    ELSE IF d \notin 1..DaysInMonth(y, mo) THEN Exc("day is out of range for month")
    ELSE IF h > 23 THEN Exc("hour must be in 0..23")
    ELSE IF mi > 59 THEN Exc("minute must be in 0..59")
    ELSE Ok(DateTime(y, mo, d, h, mi, 0))

\* calendar.py 74: float(dur), in hundredths, for a decimal numeral with an
\* optional sign and at most two digits after the point; a string that is no
\* numeral is the ValueError of float()
float_hundredths(dur) ==
    LET neg == startswith(dur, "-")
        body == IF neg \/ startswith(dur, "+") THEN SubSeq(dur, 2, Len(dur)) ELSE dur
        k == find(body, ".", 1)
        whole == IF k = 0 THEN body ELSE SubSeq(body, 1, k - 1)
        frac == IF k = 0 THEN "" ELSE SubSeq(body, k + 1, Len(body))
        valid == /\ whole = "" \/ AllDigits(whole)
                 /\ frac = "" \/ AllDigits(frac)
                 /\ whole # "" \/ frac # ""
                 /\ Len(frac) <= 2
        mag == 100 * DigitsValue(whole)
               + (IF Len(frac) = 1 THEN 10 * DigitsValue(frac) ELSE DigitsValue(frac))
    IN
    IF valid THEN Ok(IF neg THEN 0 - mag ELSE mag)
    ELSE Exc("could not convert string to float: '" \o dur \o "'")

\* the date n days after (before, for n < 0) the date of dt
RECURSIVE shift_days(_, _)
shift_days(dt, n) ==
    IF n = 0 THEN dt
    ELSE IF n > 0
    THEN shift_days(
           IF dt.d < DaysInMonth(dt.y, dt.mo) THEN [dt EXCEPT !.d = @ + 1]
           ELSE IF dt.mo < 12 THEN [dt EXCEPT !.d = 1, !.mo = @ + 1]
           ELSE [dt EXCEPT !.d = 1, !.mo = 1, !.y = @ + 1], n - 1)
    ELSE shift_days(
           IF dt.d > 1 THEN [dt EXCEPT !.d = @ - 1]
           ELSE IF dt.mo > 1
           THEN [dt EXCEPT !.mo = @ - 1, !.d = DaysInMonth(dt.y, dt.mo - 1)]
           ELSE [dt EXCEPT !.y = @ - 1, !.mo = 12, !.d = 31], n + 1)

\* calendar.py 74: start_dt + timedelta(hours=h), h given in hundredths
\* (one hundredth of an hour is 36 seconds)
plus_hours(dt, hundredths) ==
    LET total == dt.h * 3600 + dt.mi * 60 + dt.s + hundredths * 36
        days == IF total >= 0 THEN total \div 86400
                ELSE 0 - ((86399 - total) \div 86400)
        rest == total - days * 86400
        date == shift_days(dt, days)
    IN [date EXCEPT !.h = rest \div 3600, !.mi = (rest % 3600) \div 60,
                    !.s = rest % 60]

\* datetime.isoformat() of a naive datetime without microseconds
isoformat(dt) ==
    Decimal(dt.y, 4) \o "-" \o Decimal(dt.mo, 2) \o "-" \o Decimal(dt.d, 2)
    \o "T" \o Decimal(dt.h, 2) \o ":" \o Decimal(dt.mi, 2) \o ":" \o Decimal(dt.s, 2)

\* ---------------------------------------------------------- tool operations
\* What the body of the try of a tool operation did: the string it returned
\* or the Exception it raised, and the external calls it issued, in order.
Body(out, calls) == [out |-> out, calls |-> calls]

\* What a tool operation did: the value it returned (raised is TRUE when an
\* Exception left it instead) and the external calls it issued;
\* caught is the message of the Exception its except clause caught ("-" when
\* none was raised).
ToolResult(value, raised, calls, caught) ==
    [value |-> value, raised |-> raised, calls |-> calls, caught |-> caught]

\* mutant: the operation logs the Exception and raises it again
guarded_reraising(prefix, body) ==
    IF body.out.ok THEN ToolResult(body.out.v, FALSE, body.calls, "-")
    ELSE ToolResult(NoneV, TRUE, body.calls, "-")

\* `try: <body> except Exception as e: return f"<prefix>{str(e)}"`, the frame
\* of the tool operations (e.g. calendar.py 35-43, weather.py 162-182,
\* search.py 85-98)
guarded(prefix, body) ==
    IF body.out.ok THEN ToolResult(body.out.v, FALSE, body.calls, "-")
    ELSE ToolResult(Str(prefix \o body.out.m), FALSE, body.calls, body.out.m)

\* [f(p) for p in parts] with f = str.strip
strip_all(parts) == [i \in 1..Len(parts) |-> strip(parts[i])]

\* [p for p in parts if p]
non_empty(parts) == SelectSeq(parts, LAMBDA e : e # "")

\* calendar.py 25-30: CalendarTools._parse_input
parse_input(input_str) ==
    LET t == strip(input_str) IN
    IF (startswith(t, "'") /\ endswith(t, "'"))
       \/ (startswith(t, "\"") /\ endswith(t, "\""))
    THEN SubSeq(t, 2, Len(t) - 1)
    ELSE t

\* `a, b = parts`: the ValueError of an unpacking that does not fit
unpack_two(parts) ==
    IF Len(parts) = 2 THEN Ok(parts)
    ELSE IF Len(parts) < 2
    THEN Exc("not enough values to unpack (expected 2, got "
             \o Decimal(Len(parts), 1) \o ")")
    ELSE Exc("too many values to unpack (expected 2)")

\* int(x) of a stripped string: an optional sign and digits
int_of(x) ==
    LET neg == startswith(x, "-")
        body == IF neg \/ startswith(x, "+") THEN SubSeq(x, 2, Len(x)) ELSE x
    IN
    IF AllDigits(body)
    THEN Ok(IF neg THEN 0 - DigitsValue(body) ELSE DigitsValue(body))
    ELSE Exc("invalid literal for int() with base 10: '" \o x \o "'")

\* ---------------------------------------------------------------- calendar
\* The calls a calendar operation issues, by their arguments.
ServiceCall == [api |-> "get_calendar_service"]
CalendarListCall == [api |-> "calendarList.list"]
CalendarInsertCall(body) == [api |-> "calendars.insert", body |-> body]
EventsInsertCall(body) ==
    [api |-> "events.insert", calendarId |-> "primary", body |-> body,
     conferenceDataVersion |-> 1, sendUpdates |-> "all"]
EventsListCall(maxResults, singleEvents, orderBy) ==
    [api |-> "events.list", calendarId |-> "primary", timeMin |-> "now",
     maxResults |-> maxResults, singleEvents |-> singleEvents, orderBy |-> orderBy]
EventsDeleteCall(eventId) ==
    [api |-> "events.delete", calendarId |-> "primary", eventId |-> eventId,
     sendUpdates |-> "all"]

\* calendar.py 19-23: CalendarTools._get_service; `service` says whether the
\* service is there already ("cached"), or what get_calendar_service does
\* ("ok", or the message of the Exception it raises)
get_service(service) ==
    IF service = "cached" THEN Body(Ok(NoneV), <<>>)
    ELSE IF service = "ok" THEN Body(Ok(NoneV), <<ServiceCall>>)
    ELSE Body(Exc(service), <<ServiceCall>>)

\* calendar.py 33-43: CalendarTools.list_calendars; w.list is what
\* calendarList().list().execute() does: the items, or an Exception
list_calendars_body(w) ==
    LET svc == get_service(w.service)
        calls == svc.calls \o <<CalendarListCall>>
    IN
    IF ~svc.out.ok THEN svc
    ELSE IF ~w.list.ok THEN Body(Exc(w.list.m), calls)
    ELSE IF \E i \in 1..Len(w.list.v) : w.list.v[i].summary.k # "val"
    THEN Body(Exc("'summary'"), calls)
    ELSE Body(Ok(Str("Your calendars:\n"
                     \o join([i \in 1..Len(w.list.v) |->
                                 "- " \o w.list.v[i].summary.v.v], "\n"))), calls)

list_calendars(w) == guarded("Error listing calendars: ", list_calendars_body(w))

\* calendar.py 45-57: CalendarTools.create_calendar; w.insert is what
\* calendars().insert(body).execute() does: the id created, or an Exception
create_calendar_body(input_str, w) ==
    LET u == unpack_two(strip_all(split(parse_input(input_str), "|"))) IN
    IF ~u.ok THEN Body(Exc(u.m), <<>>)
    ELSE LET svc == get_service(w.service)
             calendar == [summary |-> u.v[1], timeZone |-> u.v[2]]
             calls == svc.calls \o <<CalendarInsertCall(calendar)>>
         IN
         IF ~svc.out.ok THEN svc
         ELSE IF ~w.insert.ok THEN Body(Exc(w.insert.m), calls)
         ELSE Body(Ok(Str("Created calendar '" \o u.v[1] \o "' with ID: "
                          \o w.insert.v)), calls)

create_calendar(input_str, w) ==
    guarded("Error creating calendar: ", create_calendar_body(input_str, w))

\* calendar.py 66-67: the answer to an input with a wrong number of fields
InvalidInput ==
    "Invalid input. Expected format:\n"
    \o "summary | YYYY-MM-DD | HH:MM | duration-hours | emails | description | [recurrence]"

\* calendar.py 17, config.py 31: CalendarTools.default_timezone
DefaultTimezone == "Asia/Kolkata"

\* calendar.py 93-102: the value of event["recurrence"] for the seventh field
\* (<<>> when the key is not set)
recurrence_rule(recurrence) ==
    LET rec == strip(recurrence)
        toks == words(lower(rec))
    IN
    IF recurrence = "" THEN <<>>
    ELSE IF startswith(upper(rec), "RRULE:") THEN <<rec>>
    ELSE IF toks[1] \in {"daily", "weekly"}
            /\ \E i \in 1..Len(toks) : toks[i] = "until"
    THEN <<"RRULE:FREQ=" \o upper(toks[1]) \o ";UNTIL="
           \o remove_char(toks[Len(toks)], "-") \o "T000000Z">>
    ELSE <<>>

\* calendar.py 82: the attendees of the event
attendees(emails) == non_empty(strip_all(split(emails, ",")))

\* mutant: the duration is taken in minutes
end_of_in_minutes(start_dt, hundredths) ==
    LET total == start_dt.h * 60 + start_dt.mi + (hundredths \div 100) IN
    [start_dt EXCEPT !.h = (total \div 60) % 24, !.mi = total % 60]

\* calendar.py 74: end_dt = start_dt + timedelta(hours=float(dur))
end_of(start_dt, hundredths) == plus_hours(start_dt, hundredths)

\* calendar.py 77-102: the event submitted; uuid4 stands for the random
\* request id of line 85
build_event(parts, start_dt, end_dt) ==
    [summary |-> parts[1],
     description |-> parts[6],
     start |-> [dateTime |-> isoformat(start_dt), timeZone |-> DefaultTimezone],
     end |-> [dateTime |-> isoformat(end_dt), timeZone |-> DefaultTimezone],
     attendees |-> attendees(parts[5]),
     conferenceData |->
         [createRequest |-> [requestId |-> "uuid4",
                             conferenceSolutionKey |-> "hangoutsMeet"]],
     reminders |-> [useDefault |-> TRUE],
     recurrence |-> IF Len(parts) = 7 THEN recurrence_rule(parts[7]) ELSE <<>>]

\* calendar.py 114-122: the answer built from the event the service created:
\* created.summary is the "summary" key (Absent: no such key), created.meet
\* the entry points ("none": no conference data, "empty": an empty list, or
\* the uri of the first one)
created_answer(created, parts) ==
    IF created.meet = "empty" THEN Exc("list index out of range")
    ELSE IF created.summary.k # "val" THEN Exc("'summary'")
    ELSE Ok(Str("Created event '" \o created.summary.v.v \o "'\n"
                \o "When: " \o parts[2] \o " " \o parts[3] \o " (" \o parts[4] \o "h)\n"
                \o "Attendees: " \o parts[5] \o "\n"
                \o "Meet: " \o (IF created.meet = "none" THEN "No meet link"
                                 ELSE created.meet)))


\* mutant: any input of six fields or more is accepted
field_count_at_least_six(parts) == Len(parts) >= 6

\* calendar.py 65: the number of fields insert_event accepts
field_count_accepted(parts) == Len(parts) \in {6, 7}

\* calendar.py 61-122: the body of the try of insert_event; w.insert is what
\* events().insert(...).execute() does: the event created, or an Exception
insert_event_body(input_str, w) ==
    LET parts == strip_all(split(parse_input(input_str), "|")) IN
    IF ~field_count_accepted(parts) THEN Body(Ok(Str(InvalidInput)), <<>>)
    ELSE LET start == fromisoformat(parts[2], parts[3]) IN
    IF ~start.ok THEN Body(Exc(start.m), <<>>)
    ELSE LET dur == float_hundredths(parts[4]) IN
    IF ~dur.ok THEN Body(Exc(dur.m), <<>>)
    ELSE LET event == build_event(parts, start.v, end_of(start.v, dur.v))
             svc == get_service(w.service)
             calls == svc.calls \o <<EventsInsertCall(event)>>
         IN
         IF ~svc.out.ok THEN svc
         ELSE IF ~w.insert.ok THEN Body(Exc(w.insert.m), calls)
         ELSE Body(created_answer(w.insert.v, parts), calls)

\* calendar.py 59-126: CalendarTools.insert_event
insert_event(input_str, w) ==
    guarded("Error creating event: ", insert_event_body(input_str, w))

\* calendar.py 150-156: one line per event; an event has a start, a
\* "summary" key or none, and a description
RECURSIVE event_lines(_, _)
event_lines(events, i) ==
    IF i > Len(events) THEN <<>>
    ELSE LET e == events[i]
             summary == IF e.summary.k = "val" THEN e.summary.v.v ELSE "(no title)"
             preview == IF e.description # ""
                        THEN " - " \o SubSeq(e.description, 1,
                                 IF Len(e.description) < 30 THEN Len(e.description)
                                 ELSE 30) \o "..."
                        ELSE ""
         IN <<Decimal(i, 1) \o ". " \o e.start \o ": " \o summary \o preview>>
            \o event_lines(events, i + 1)

\* calendar.py 130-159: the body of the try of list_events; w.list is what
\* events().list(...).execute() does: the items, or an Exception
list_events_body(input_str, w) ==
    LET u == unpack_two(strip_all(split(parse_input(input_str), "|"))) IN
    IF ~u.ok THEN Body(Exc(u.m), <<>>)
    ELSE LET max_res == int_of(u.v[2]) IN
    IF ~max_res.ok THEN Body(Exc(max_res.m), <<>>)
    ELSE LET svc == get_service(w.service)
             calls == svc.calls \o <<EventsListCall(max_res.v, TRUE, "startTime")>>
         IN
         IF ~svc.out.ok THEN svc
         ELSE IF ~w.list.ok THEN Body(Exc(w.list.m), calls)
         ELSE IF w.list.v = <<>> THEN Body(Ok(Str("No upcoming events found.")), calls)
         ELSE Body(Ok(Str(join(<<"Upcoming events:">> \o event_lines(w.list.v, 1),
                               "\n"))), calls)

\* calendar.py 128-163: CalendarTools.list_events
list_events(input_str, w) ==
    guarded("Error listing events: ", list_events_body(input_str, w))

\* calendar.py 171-174: the scope of a deletion
delete_scope(parts) ==
    IF Len(parts) > 1 /\ startswith(lower(parts[2]), "scope=")
    THEN lower(strip(split_once(parts[2], "=")[2]))
    ELSE "one"

\* calendar.py 190: query in event.get("summary", "").lower()
title_matches(query, event) ==
    contains(lower(IF event.summary.k = "val" THEN event.summary.v.v ELSE ""), query)

\* calendar.py 189-190: the position of the first event that matches, 0 when
\* none does
RECURSIVE first_match(_, _, _)
first_match(events, query, i) ==
    IF i > Len(events) THEN 0
    ELSE IF title_matches(query, events[i]) THEN i
    ELSE first_match(events, query, i + 1)

\* calendar.py 167-205: the body of the try of delete_event; w.list is what
\* events().list(...).execute() does and w.delete the Exception that
\* events().delete(...).execute() raises ("" when it raises none)
delete_event_body(input_str, w) ==
    LET parts == strip_all(split(parse_input(input_str), "|"))
        query == lower(parts[1])
        scope == delete_scope(parts)
        svc == get_service(w.service)
        listed == svc.calls
                  \o <<EventsListCall(50, scope # "all",
                                      IF scope # "all" THEN "startTime" ELSE "None")>>
    IN
    IF ~svc.out.ok THEN svc
    ELSE IF ~w.list.ok THEN Body(Exc(w.list.m), listed)
    ELSE LET k == first_match(w.list.v, query, 1) IN
         IF k = 0 THEN Body(Ok(Str("No event found matching '" \o query \o "'")), listed)
         ELSE IF w.list.v[k].summary.k # "val" THEN Body(Exc("'summary'"), listed)
         ELSE LET deleted == listed \o <<EventsDeleteCall(w.list.v[k].id)>> IN
              IF w.delete # "" THEN Body(Exc(w.delete), deleted)
              ELSE Body(Ok(Str("Deleted event '" \o w.list.v[k].summary.v.v \o "' "
                               \o (IF scope = "all" THEN "(entire series)" ELSE ""))),
                        deleted)

\* calendar.py 165-209: CalendarTools.delete_event
delete_event(input_str, w) ==
    guarded("Error deleting event: ", delete_event_body(input_str, w))

\* calendar.py 211-219, weather.py 28-36, search.py 101-109:
\* get_current_datetime; w.tz is what pytz.timezone(default_timezone) does,
\* w.local and w.utc are the two readings of the clock
get_current_datetime(w) ==
    IF w.tz.ok THEN ToolResult(Str(w.local), FALSE, <<>>, "-")
    ELSE ToolResult(Str(w.utc), FALSE, <<>>, w.tz.m)

\* ----------------------------------------------------------------- weather
\* The HTTP requests a weather operation issues.
GeocodeCall(city) == [api |-> "GET nominatim", q |-> city]
ForecastCall == [api |-> "GET open-meteo", forecast_days |-> 3]

\* weather.py 68: both parts of the location are numerals (float() accepts
\* them); the numerals of the model have at most two digits after the point
is_coordinates(parts) ==
    Len(parts) = 2 /\ float_hundredths(parts[1]).ok /\ float_hundredths(parts[2]).ok

\* f"{x:.2f}" of a number given in hundredths
fixed2(h) ==
    (IF h < 0 THEN "-" ELSE "")
    \o Decimal((IF h < 0 THEN 0 - h ELSE h) \div 100, 1) \o "."
    \o Decimal((IF h < 0 THEN 0 - h ELSE h) % 100, 2)

\* weather.py 39-60: WeatherTools._geocode; w.geo is what the request gives:
\* "found", "nothing" (an empty answer), or the message of the Exception of
\* the request
geocode(city, w) ==
    IF w.geo = "found" THEN Body(Ok(NoneV), <<GeocodeCall(city)>>)
    ELSE IF w.geo = "nothing"
    THEN Body(Exc("Could not find location: " \o city), <<GeocodeCall(city)>>)
    ELSE Body(Exc(w.geo), <<GeocodeCall(city)>>)

\* weather.py 62-103: WeatherTools._get_weather_data; w.api is what the
\* forecast request gives: the data, or an Exception.  The data returned
\* carries the name of the location.
get_weather_data(location, w) ==
    LET parts == strip_all(split(location, ","))
        coords == is_coordinates(parts)
        geo == IF coords THEN Body(Ok(NoneV), <<>>) ELSE geocode(location, w)
        name == IF coords
                THEN fixed2(float_hundredths(parts[1]).v) \o ","
                     \o fixed2(float_hundredths(parts[2]).v)
                ELSE location
        calls == geo.calls \o <<ForecastCall>>
    IN
    IF ~geo.out.ok THEN Body(Exc("Location error: " \o geo.out.m), geo.calls)
    ELSE IF ~w.api.ok THEN Body(Exc("Weather API error: " \o w.api.m), calls)
    ELSE Body(Ok([w.api.v EXCEPT !.location = name]), calls)

\* weather.py 160-182: WeatherTools.get_current_weather; data.current_empty
\* says that there is no current weather, data.current is the text lines
\* 170-176 build from it (an Exception when a key is missing)
get_current_weather_body(location, w) ==
    LET d == get_weather_data(location, w) IN
    IF ~d.out.ok THEN d
    ELSE IF d.out.v.current_empty
    THEN Body(Ok(Str("No current weather data available for " \o location)), d.calls)
    ELSE IF ~d.out.v.current.ok THEN Body(Exc(d.out.v.current.m), d.calls)
    ELSE Body(Ok(Str("Current weather for " \o d.out.v.location \o " at "
                     \o d.out.v.current.v)), d.calls)

get_current_weather(location, w) ==
    guarded("Error getting weather for " \o location \o ": ",
            get_current_weather_body(location, w))

\* weather.py 105-157, 184-201: WeatherTools.get_weather_forecast;
\* data.forecast is the text _format_forecast builds for the kind of
\* forecast, or the Exception it raises
get_weather_forecast_body(location, forecast_type, w) ==
    LET d == get_weather_data(location, w)
        kind == IF lower(forecast_type) \in {"today", "hourly"} THEN "hourly"
                ELSE IF lower(forecast_type) = "tomorrow" THEN "tomorrow"
                ELSE "daily"
        heading == CASE kind = "hourly" -> "Next 12 hours forecast for "
                     [] kind = "tomorrow" -> "Tomorrow's forecast for "
                     [] OTHER -> "3-day forecast for "
    IN
    IF ~d.out.ok THEN d
    ELSE IF ~d.out.v.forecast.ok THEN Body(Exc(d.out.v.forecast.m), d.calls)
    ELSE Body(Ok(Str(heading \o d.out.v.location \o d.out.v.forecast.v)), d.calls)

get_weather_forecast(location, forecast_type, w) ==
    guarded("Error getting forecast for " \o location \o ": ",
            get_weather_forecast_body(location, forecast_type, w))

\* weather.py 259-268: WeatherTools.geocode_location
geocode_location_body(location, w) ==
    LET g == geocode(location, w) IN
    IF ~g.out.ok THEN g
    ELSE Body(Ok(Str("Coordinates for " \o location \o ": " \o w.coordinates)), g.calls)

geocode_location(location, w) ==
    guarded("Error finding location " \o location \o ": ",
            geocode_location_body(location, w))

\* lst[start:end] for 0 <= start and 0 <= end, positions counted from 0
PySlice(lst, start, end) ==
    SubSeq(lst, start + 1, IF end < Len(lst) THEN end ELSE Len(lst))

Min(a, b) == IF a < b THEN a ELSE b
Max(a, b) == IF a > b THEN a ELSE b

\* max(lst) of a non-empty list of numbers
MaxOf(lst) ==
    CHOOSE m \in {lst[i] : i \in 1..Len(lst)} : \A i \in 1..Len(lst) : lst[i] <= m

\* sum(lst)
RECURSIVE SumOf(_)
SumOf(lst) == IF lst = <<>> THEN 0 ELSE lst[1] + SumOf(Tail(lst))

\* lst.index(x), counted from 0, for an x that is in lst
RECURSIVE IndexOf(_, _, _)
IndexOf(lst, x, i) == IF lst[i + 1] = x THEN i ELSE IndexOf(lst, x, i + 1)


\* mutant: the end of the window of tomorrow is not cut to the series
rain_window_uncut(time_period, current_hour, n) ==
    LET p == lower(time_period) IN
    IF p \in {"this_evening", "evening"}
    THEN [start |-> Max(0, 18 - current_hour),
          end |-> Min(n, 22 - current_hour + 1), name |-> "this evening"]
    ELSE IF p = "tonight"
    THEN [start |-> Max(0, 22 - current_hour),
          end |-> Min(n, 30 - current_hour + 1), name |-> "tonight"]
    ELSE IF p = "tomorrow"
    THEN [start |-> 24 - current_hour,
          end |-> 48 - current_hour, name |-> "tomorrow"]
    ELSE [start |-> 0, end |-> Min(n, 24 - current_hour), name |-> "today"]

\* weather.py 216-223: the window of hour positions of a period, for the
\* hour of the clock and a forecast of n hours
rain_window(time_period, current_hour, n) ==
    LET p == lower(time_period) IN
    IF p \in {"this_evening", "evening"}
    THEN [start |-> Max(0, 18 - current_hour),
          end |-> Min(n, 22 - current_hour + 1), name |-> "this evening"]
    ELSE IF p = "tonight"
    THEN [start |-> Max(0, 22 - current_hour),
          end |-> Min(n, 30 - current_hour + 1), name |-> "tonight"]
    ELSE IF p = "tomorrow"
    THEN [start |-> 24 - current_hour,
          end |-> Min(n, 48 - current_hour), name |-> "tomorrow"]
    ELSE [start |-> 0, end |-> Min(n, 24 - current_hour), name |-> "today"]

\* mutant: the line of 50 is missing
rain_label_three(max_prob) ==
    IF max_prob >= 70 THEN "Rain is very likely"
    ELSE IF max_prob >= 30 THEN "Rain is possible"
    ELSE "Rain is unlikely"

\* weather.py 243-250: the label of a maximum
rain_label(max_prob) ==
    IF max_prob >= 70 THEN "Rain is very likely"
    ELSE IF max_prob >= 50 THEN "Rain is likely"
    ELSE IF max_prob >= 30 THEN "Rain is possible"
    ELSE "Rain is unlikely"

\* A local variable of the source is assigned once, its value then read any
\* number of times: Then is applied to the value of `value`.
Once(value, Then(_)) == CHOOSE r \in {Then(x) : x \in {value}} : TRUE

\* weather.py 229-236: what is reported for a window of the hourly series;
\* amounts are in tenths of a millimetre
rain_figures(hourly, win) ==
    Once(PySlice(hourly.precipitation_probability, win.start, win.end),
      LAMBDA precip_probs :
    Once(PySlice(hourly.time, win.start, win.end), LAMBDA times :
    Once(IF precip_probs # <<>> THEN MaxOf(precip_probs) ELSE 0, LAMBDA max_prob :
    Once(IF precip_probs # <<>> THEN IndexOf(precip_probs, max_prob, 0) ELSE 0,
      LAMBDA peak_idx :
        [max_prob |-> max_prob,
         total_precip |-> SumOf(PySlice(hourly.precipitation, win.start, win.end)),
         peak_time |-> IF times # <<>> THEN times[peak_idx + 1] ELSE "unknown",
         period_name |-> win.name,
         label |-> rain_label(max_prob)]))))

\* weather.py 238-250: the text of the report ("*" stands for the bullet
\* character of the source, which a TLA+ string cannot hold)
rain_report(location_name, f) ==
    "Rain forecast for " \o location_name \o " " \o f.period_name \o ":\n"
    \o "* Maximum rain probability: " \o Decimal(f.max_prob, 1) \o "%\n"
    \o "* Expected precipitation: " \o Decimal(f.total_precip \div 10, 1) \o "."
    \o Decimal(f.total_precip % 10, 1) \o "mm\n"
    \o "* Peak rain time: " \o f.peak_time \o "\n"
    \o "* " \o f.label

\* the figures of a call that produced no report
NoFigures ==
    [max_prob |-> 0, total_precip |-> 0, peak_time |-> "", period_name |-> "",
     label |-> ""]

\* weather.py 205-253: the body of the try of check_rain_probability, with
\* the figures it reports; current_hour is datetime.now().hour
check_rain_probability_body(location, time_period, current_hour, w) ==
    Once(get_weather_data(location, w), LAMBDA d :
    IF ~d.out.ok THEN [body |-> d, reported |-> FALSE, figures |-> NoFigures]
    ELSE Once(rain_window(time_period, current_hour, Len(d.out.v.hourly.time)),
           LAMBDA win :
         IF d.out.v.hourly_empty
         THEN [body |-> Body(Ok(Str("No forecast data available for " \o location)),
                             d.calls),
               reported |-> FALSE, figures |-> NoFigures]
         ELSE IF win.start >= Len(d.out.v.hourly.time) \/ win.end <= win.start
         THEN [body |-> Body(Ok(Str("No forecast data available for " \o win.name)),
                             d.calls),
               reported |-> FALSE, figures |-> [NoFigures EXCEPT !.period_name = win.name]]
         ELSE Once(rain_figures(d.out.v.hourly, win), LAMBDA f :
              [body |-> Body(Ok(Str(rain_report(d.out.v.location, f))), d.calls),
               reported |-> TRUE, figures |-> f])))

\* weather.py 203-257: WeatherTools.check_rain_probability
check_rain_probability(location, time_period, current_hour, w) ==
    guarded("Error checking rain probability for " \o location \o ": ",
            check_rain_probability_body(location, time_period, current_hour, w).body)

\* ------------------------------------------------------------------ search
\* search.py 15, config.py 16: SearchTools.default_max_results
DefaultMaxResults == 5

\* search.py 23-35: the request to the search API
TavilyCall(query, search_depth, max_results) ==
    [api |-> "POST tavily", query |-> query, search_depth |-> search_depth,
     max_results |-> max_results]

\* mutant: a request that fails is sent a second time
make_tavily_request_retrying(query, search_depth, max_results, w) ==
    Body(w.post,
         IF w.post.ok THEN <<TavilyCall(query, search_depth, max_results)>>
         ELSE <<TavilyCall(query, search_depth, max_results),
                TavilyCall(query, search_depth, max_results)>>)

\* search.py 18-42: SearchTools._make_tavily_request; w.post is what the
\* request gives: the data, or the Exception that is raised again
make_tavily_request(query, search_depth, max_results, w) ==
    Body(w.post, <<TavilyCall(query, search_depth, max_results)>>)

\* search.py 58-69: the lines of the results; a result has a title, a url
\* and a content
RECURSIVE result_lines(_, _)
result_lines(results, i) ==
    IF i > Len(results) THEN <<>>
    ELSE LET r == results[i]
             content == IF Len(r.content) > 200
                        THEN SubSeq(r.content, 1, 200) \o "..." ELSE r.content
         IN <<"\n" \o Decimal(i, 1) \o ". " \o r.title,
              "   URL: " \o r.url,
              "   Summary: " \o content>>
            \o result_lines(results, i + 1)

\* search.py 44-80: SearchTools._format_search_results; data.broken is the
\* message of the Exception the data makes the formatting raise ("" when none)
format_search_results(data, query) ==
    LET results == (IF data.answer # "" THEN <<"Answer: " \o data.answer \o "\n">>
                    ELSE <<>>)
                   \o (IF data.results # <<>>
                       THEN <<"Search Results:">> \o result_lines(data.results, 1)
                       ELSE <<>>)
    IN
    IF data.broken # "" THEN Str("Error formatting search results: " \o data.broken)
    ELSE IF results = <<>> THEN Str("No search results found for: " \o query)
    ELSE Str(join(results, "\n"))

\* search.py 85-93: the body of the try of web_search
web_search_body(query, w) ==
    IF strip(query) = "" THEN Body(Ok(Str("Error: Search query cannot be empty")), <<>>)
    ELSE LET r == make_tavily_request(query, "basic", DefaultMaxResults, w) IN
         IF ~r.out.ok THEN r
         ELSE Body(Ok(format_search_results(r.out.v, query)), r.calls)

\* search.py 83-98: SearchTools.web_search
web_search(query, w) ==
    guarded("Error performing web search for '" \o query \o "': ",
            web_search_body(query, w))

\* search.py 129-137: the lines of the results of a research
RECURSIVE research_lines(_, _)
research_lines(results, i) ==
    IF i > Len(results) THEN <<>>
    ELSE LET r == results[i] IN
         <<"\n" \o Decimal(i, 1) \o ". " \o r.title,
           "   Source: " \o r.url,
           "   Content: " \o r.content,
           "   --------------------------------------------------------------------------------">>
         \o research_lines(results, i + 1)

\* search.py 113-144: the body of the try of research_search
research_search_body(topic, w) ==
    IF strip(topic) = "" THEN Body(Ok(Str("Error: Research topic cannot be empty")), <<>>)
    ELSE LET r == make_tavily_request(topic, "advanced", 10, w)
             data == r.out.v
             results == (IF data.answer # ""
                         THEN <<"Research Summary: " \o data.answer \o "\n">> ELSE <<>>)
                        \o (IF data.results # <<>>
                            THEN <<"Detailed Research Results:">>
                                 \o research_lines(data.results, 1)
                            ELSE <<>>)
         IN
         IF ~r.out.ok THEN r
         ELSE IF data.broken # "" THEN Body(Exc(data.broken), r.calls)
         ELSE IF results = <<>>
         THEN Body(Ok(Str("No research results found for: " \o topic)), r.calls)
         ELSE Body(Ok(Str(join(results, "\n"))), r.calls)

\* search.py 111-149: SearchTools.research_search
research_search(topic, w) ==
    guarded("Error performing research search for '" \o topic \o "': ",
            research_search_body(topic, w))

\* ------------------------------------------------------- agent constructors
\* agents.py 58, 75, 92, 109: the names of the four agents
AgentName ==
    [email |-> "EmailAssistant", weather |-> "WeatherAssistant",
     calendar |-> "CalendarAssistant", search |-> "SearchAssistant"]

\* agents.py 46-49, 69-70, 86-87, 103-104: the calls of the try of a
\* constructor, in order
ToolSteps(role) ==
    IF role = "email" THEN <<"get_gmail_service", "GmailTools", "as_function_tools">>
    ELSE IF role = "weather" THEN <<"WeatherTools", "as_function_tools">>
    ELSE IF role = "calendar" THEN <<"CalendarTools", "as_function_tools">>
    ELSE <<"SearchTools", "as_function_tools">>

\* mutant: the constructor has no except clause around the tool set
build_tools_unguarded(role, w) ==
    IF w.failing = 0
    THEN [tools |-> w.tools, calls |-> ToolSteps(role), caught |-> "-", raised |-> "-"]
    ELSE [tools |-> <<>>, calls |-> SubSeq(ToolSteps(role), 1, w.failing),
          caught |-> "-", raised |-> w.m]

\* agents.py 46-54 (and 68-74, 85-91, 102-108): the try of a constructor.
\* w.failing is the step that raises (0: none), w.m its message, w.tools the
\* list as_function_tools returns
build_tools(role, w) ==
    IF w.failing = 0
    THEN [tools |-> w.tools, calls |-> ToolSteps(role), caught |-> "-", raised |-> "-"]
    ELSE [tools |-> <<>>, calls |-> SubSeq(ToolSteps(role), 1, w.failing),
          caught |-> w.m, raised |-> "-"]

\* the constructor did not return
NotBuilt == [name |-> "", tools |-> <<>>]

\* agents.py 44-123: a constructor.  After the try it builds the system
\* prompt (with _get_timezone) and the AssistantAgent; w.agent is "ok" or the
\* message of the Exception one of the two raises.
construct_agent(role, w) ==
    LET b == build_tools(role, w) IN
    IF b.raised # "-"
    THEN [returned |-> FALSE, agent |-> NotBuilt, raised |-> b.raised,
          calls |-> b.calls, caught |-> b.caught]
    ELSE IF w.agent # "ok"
    THEN [returned |-> FALSE, agent |-> NotBuilt, raised |-> w.agent,
          calls |-> b.calls, caught |-> b.caught]
    ELSE [returned |-> TRUE, agent |-> [name |-> AgentName[role], tools |-> b.tools],
          raised |-> "-", calls |-> b.calls, caught |-> b.caught]

\* ------------------------------------------------------------------ inputs
ContentSlots == {Absent, Has(NoneV), Has(Str("")), Has(Str("It is sunny.")),
                 Has(ListV("[FunctionCall]")), Has(EmptyList), Has(DictV("sunny")),
                 Raises("boom"), RaisesLate("boom")}

\* the messages a collaboration run returns in the model
MsgSamples ==
    {Msg("TextMessage", Has(Str("WeatherAssistant")), Absent, c, Absent,
         Ok(Str("<TextMessage>"))) : c \in ContentSlots}
    \cup {Msg("Event", Absent, Has(Str("user")), Has(NoneV), Has(Str("body text")),
              Exc("boom"))}


\* a message whose nine attributes are each absent, None, a str, or raising
Message(cls, names, contents, strform) ==
    [cls |-> cls,
     attrs |-> [a \in AttrNames |->
                  IF a \in DOMAIN names THEN names[a] ELSE contents[a]],
     str |-> strform]

\* the attribute sets of the two loops of agents.py 208-242
NameKeys == {"src", "sender", "author", "agent", "role"}
ContentKeys == {"content", "text", "message", "body"}

\* an attribute named a holding a str that tells which attribute it came from
Held(a) == Has(Str(a))

\* display-name attributes: src and sender may also raise, early or late
NameChoices ==
    {n \in [NameKeys -> {Absent, Has(NoneV), Has(Str("src")), Has(Str("sender")),
                         Has(Str("author")), Has(Str("agent")), Has(Str("role")),
                         Raises("boom"), RaisesLate("boom")}] :
        \A a \in NameKeys :
            \/ n[a] \in {Absent, Has(NoneV), Held(a)}
            \/ /\ a \in {"src", "sender"}
               /\ n[a] \in {Raises("boom"), RaisesLate("boom")}}

\* content attributes: content may be the empty str or raise, text may raise late
ContentChoices ==
    {c \in [ContentKeys -> {Absent, Has(NoneV), Has(Str("")), Has(Str("content")),
                            Has(Str("text")), Has(Str("message")), Has(Str("body")),
                            Raises("boom"), RaisesLate("boom")}] :
        \A a \in ContentKeys :
            \/ c[a] \in {Absent, Has(NoneV), Held(a)}
            \/ /\ a = "content"
               /\ c[a] \in {Has(Str("")), Raises("boom"), RaisesLate("boom")}
            \/ a = "text" /\ c[a] = RaisesLate("boom")}

PlainName == [a \in NameKeys |-> IF a = "src" THEN Held(a) ELSE Absent]
PlainContent == [a \in ContentKeys |-> IF a = "content" THEN Held(a) ELSE Absent]

\* the messages the logging loop is applied to, of two types
LogSamples ==
    {Message(cls, n, PlainContent, Ok(Str("<str>"))) :
        cls \in {"TextMessage", "ToolCallSummaryMessage"}, n \in NameChoices}
    \cup {Message(cls, PlainName, c, s) :
            cls \in {"TextMessage", "ToolCallSummaryMessage"}, c \in ContentChoices,
            s \in {Ok(Str("<str>")), Exc("boom")}}

RECURSIVE SeqsUpTo(_, _)
SeqsUpTo(S, n) ==
    IF n = 0 THEN {<<>>}
    ELSE LET shorter == SeqsUpTo(S, n - 1) IN
         shorter \cup {Append(q, x) : q \in shorter, x \in S}

RunOutcomes ==
    {RunRaises("boom"), RunNoAttr, RunNone}
    \cup {RunReturns(q) : q \in SeqsUpTo(MsgSamples, MaxMsgs)}

\* what the body of process_request can end with, over the runs of the model
BodyOutcomes == {try_body(run) : run \in RunOutcomes}

Timestamps ==
    {TsAbsent, TsNonInt}
    \cup {TsInt(Epoch + d) : d \in {0 - ReplayWindow - 1, 0 - ReplayWindow, 0,
                                    ReplayWindow, ReplayWindow + 1}}

EventFields ==
    {EvAbsent, EvNonDict}
    \cup {EvDict("app_mention", e) : e \in Events}
    \cup {EvDict("message", e) : e \in Events}

\* every request of the model
Requests ==
    {Request(b, "", NoneV, EvAbsent, ts, sig, Epoch) :
        b \in {"badjson", "nonobject"}, ts \in {TsAbsent, TsInt(Epoch)},
        sig \in {"absent", "valid"}}
    \cup {Request("object", ty, ch, ev, ts, sig, Epoch) :
            ty \in {"url_verification", "event_callback", ""},
            ch \in {NoneV, Str("3eZbrw1aB")},
            ev \in EventFields, ts \in Timestamps,
            sig \in {"absent", "invalid", "valid"}}

\* the n-th delivery of a mention event, signed and sent in time
Delivery(n) ==
    Request("object", "event_callback", NoneV, EvDict("app_mention", EventNo(n)),
            TsInt(Epoch), "valid", Epoch)

\* ------------------------------------------------- inputs of the tool calls
\* longest list of upcoming events the calendar returns in the model
MaxEvents == 3

\* weather.py 84: forecast_days of the forecast request
ForecastDays == 3

\* what get_calendar_service does, or that the service is there already
ServiceStates == {"cached", "ok", "invalid_grant"}

\* the sequences without repetition of at most n elements of S
RECURSIVE Arrangements(_, _)
Arrangements(S, n) ==
    IF n = 0 THEN {<<>>}
    ELSE LET shorter == Arrangements(S, n - 1) IN
         shorter \cup
         UNION {{Append(q, x) : x \in {y \in S : \A i \in 1..Len(q) : q[i] # y}} :
                  q \in shorter}

\* the upcoming events of the model: one of them has no title
EventSamples ==
    {[id |-> "e1", summary |-> Has(Str("Team Meeting")),
      start |-> "2025-06-16T10:00:00+05:30", description |-> "Weekly sync"],
     [id |-> "e2", summary |-> Has(Str("Daily Standup")),
      start |-> "2025-06-16T09:00:00+05:30",
      description |-> "Fifteen minutes, every morning, camera on"],
     [id |-> "e3", summary |-> Has(Str("team lunch")),
      start |-> "2025-06-17", description |-> ""],
     [id |-> "e4", summary |-> Absent,
      start |-> "2025-06-18T08:00:00+05:30", description |-> ""]}

EventLists == Arrangements(EventSamples, MaxEvents)

\* what events().list(...).execute() does
ListOutcomes == {ExcList("HttpError 500")} \cup {Ok(q) : q \in EventLists}

DeleteInputs ==
    {"Team Meeting", "team", "'Daily Standup | scope=all'", "standup | scope=ALL",
     "STANDUP | scope= one", "lunch | all", "", "offsite"}

DeleteWorlds ==
    {[service |-> sv, list |-> l, delete |-> d] :
        sv \in ServiceStates, l \in ListOutcomes, d \in {"", "HttpError 410"}}

InsertInputs ==
    {"Sync | 2025-06-15 | 14:30 | 1 | a@x.com,b@x.com | desc",
     "'Standup | 2025-06-15 | 09:00 | 0.5 | team@x.com | Daily sync | daily until 2025-12-31'",
     "Review | 2025-06-15 | 15:00 | 2 | m@x.com | Project review | RRULE:FREQ=WEEKLY;BYDAY=FR;COUNT=10",
     "Late | 2025-12-31 | 23:30 | 1.5 | a@x.com, ,b@x.com, | crosses the year",
     "Solo | 2024-02-28 | 23:00 | 25 |  | no attendees",
     "Weekly | 2025-06-15 | 10:00 | 1 | a@x.com | d | Weekly UNTIL 2025-07-01",
     "Odd | 2025-06-15 | 10:00 | 1 | a@x.com | d | every day",
     "Bare | 2025-06-15 | 10:00 | 1 | a@x.com | d | ",
     "Sync | 2025-06-15 | 14:30 | 1 | a@x.com",
     "a | b | c | d | e | f | g | h",
     "Sync | 15/06/2025 | 14:30 | 1 | a@x.com | d",
     "Sync | 2025-06-31 | 14:30 | 1 | a@x.com | d",
     "Sync | 2025-06-15 | 2pm | 1 | a@x.com | d",
     "Sync | 2025-06-15 | 14:30 | one | a@x.com | d",
     ""}

\* what events().insert(...).execute() does
InsertOutcomes ==
    {Exc("HttpError 403")}
    \cup {Ok([summary |-> sm, meet |-> mt]) :
            sm \in {Has(Str("Sync")), Absent},
            mt \in {"https://meet.google.com/abc-defg-hij", "none", "empty"}}

InsertWorlds ==
    {[service |-> sv, insert |-> o] : sv \in ServiceStates, o \in InsertOutcomes}

ListCalendarsWorlds ==
    {[service |-> sv, list |-> l] :
        sv \in ServiceStates,
        l \in {ExcList("HttpError 500"), Ok(<<>>),
               Ok(<<[summary |-> Has(Str("Work"))], [summary |-> Has(Str("Home"))]>>),
               Ok(<<[summary |-> Absent]>>)}}

CreateCalendarInputs == {"Work | Asia/Kolkata", "Work", "a | b | c", "\"Trips | UTC\""}

CreateCalendarWorlds ==
    {[service |-> sv, insert |-> o] :
        sv \in ServiceStates, o \in {ExcText("HttpError 403"), Ok("cal_1")}}

ListEventsInputs == {"primary | 10", "primary | 1", "primary | ten", "primary", "work | -1"}

ListEventsWorlds ==
    {[service |-> sv, list |-> l] :
        sv \in {"cached", "invalid_grant"},
        l \in {o \in ListOutcomes : ~o.ok \/ Len(o.v) \in {0, MaxEvents}}}

ClockWorlds ==
    {[tz |-> t, local |-> "2025-06-15T20:00:00+05:30", utc |-> "2025-06-15T14:30:00+00:00"] :
        t \in {Ok(NoneV), Exc("UnknownTimeZoneError")}}

\* the time stamp of the hour at position i (from 0) of a forecast
HourStamp(i) ==
    "2025-06-" \o Decimal(15 + (i \div 24), 2) \o "T" \o Decimal(i % 24, 2) \o ":00"

\* A shape of an hourly series: the probability at position i is `peak` at
\* the positions of `at` and (base + step * i) % 101 elsewhere.
ForecastShapes ==
    {[base |-> 0, step |-> 0, peak |-> 0, at |-> {}],
     [base |-> 0, step |-> 3, peak |-> 0, at |-> {}],
     [base |-> 7, step |-> 13, peak |-> 0, at |-> {}]}
    \cup {[base |-> 10, step |-> 0, peak |-> v, at |-> {5, 20, 21, 44, 45}] :
            v \in {29, 30, 49, 50, 69, 70, 100}}

\* the first n time stamps, probabilities and amounts (in tenths of a
\* millimetre) of a shape
RECURSIVE Stamps(_)
Stamps(n) == IF n = 0 THEN <<>> ELSE Append(Stamps(n - 1), HourStamp(n - 1))

RECURSIVE Probabilities(_, _)
Probabilities(n, shape) ==
    IF n = 0 THEN <<>>
    ELSE Append(Probabilities(n - 1, shape),
                IF (n - 1) \in shape.at THEN shape.peak
                ELSE (shape.base + shape.step * (n - 1)) % 101)

RECURSIVE Amounts(_)
Amounts(n) == IF n = 0 THEN <<>> ELSE Append(Amounts(n - 1), (n - 1) % 4)

\* the hourly series of n hours of a shape
Hourly(n, shape) ==
    [time |-> Stamps(n),
     precipitation_probability |-> Probabilities(n, shape),
     precipitation |-> Amounts(n)]

\* an answer without hours
EmptyHourly == [time |-> <<>>, precipitation_probability |-> <<>>, precipitation |-> <<>>]

\* the lengths of the hourly series: whole days up to forecast_days, and a
\* series that ends in the night
ForecastLengths == {24 * d : d \in 0..ForecastDays} \cup {30}

\* the data of a forecast answer
WeatherData(current_empty, current, forecast, hourly_empty, hourly) ==
    [location |-> "", current_empty |-> current_empty, current |-> current,
     forecast |-> forecast, hourly_empty |-> hourly_empty, hourly |-> hourly]

\* the answers with an hourly series
RainData ==
    {WeatherData(FALSE, Ok(""), Ok(""), FALSE, Hourly(n, sh)) :
        n \in ForecastLengths, sh \in ForecastShapes}

\* what the two requests of a weather operation do
RainWorlds ==
    {[geo |-> "found", api |-> Ok(d), coordinates |-> "48.8535, 2.3484"] : d \in RainData}
    \cup {[geo |-> g, api |-> a, coordinates |-> "48.8535, 2.3484"] :
            g \in {"found", "nothing", "ConnectTimeout"},
            a \in {Exc("503 Service Unavailable"),
                   Ok(WeatherData(TRUE, Ok(""), Ok(""), TRUE, EmptyHourly))}}

TimePeriods == {"today", "tomorrow", "Tomorrow", "tonight", "evening", "this_evening",
                "next week"}

Hours == 0..23

WeatherWorlds ==
    {[geo |-> g, api |-> a, coordinates |-> "48.8535, 2.3484"] :
        g \in {"found", "nothing", "ConnectTimeout"},
        a \in {Exc("503 Service Unavailable")}
              \cup {Ok(WeatherData(ce, c, f, FALSE, EmptyHourly)) :
                      ce \in BOOLEAN,
                      c \in {Ok("2025-06-15 14:00 UTC: 31.2 C, Clear sky, wind 9.4 km/h"),
                             ExcText("'temperature'")},
                      f \in {Ok(":\n  2025-06-15: 24-33 C, Clear sky, 0.0mm"),
                             ExcText("'precipitation_probability'")}}}


\* longest hourly series the window of check_rain_probability is taken from
MaxSeriesLen == 50

\* forecast answers with an hourly series of every length up to MaxSeriesLen
SeriesWorlds ==
    {[geo |-> "found",
      api |-> Ok(WeatherData(FALSE, Ok(""), Ok(""), FALSE,
                             Hourly(n, [base |-> 7, step |-> 13, peak |-> 0, at |-> {}]))),
      coordinates |-> "48.8535, 2.3484"] : n \in 0..MaxSeriesLen}

Locations == {"Paris", "Paris, France", "48.85,2.35", "-33.9,18", ""}

ForecastTypes == {"today", "Hourly", "tomorrow", "week"}

SearchResults ==
    {<<>>,
     <<[title |-> "AutoGen", url |-> "https://example.org/autogen",
        content |-> "A framework for multi-agent applications."]>>}

SearchWorlds ==
    {[post |-> Exc(m)] : m \in {"ReadTimeout", "401 Unauthorized"}}
    \cup {[post |-> Ok([answer |-> a, results |-> r, broken |-> b])] :
            a \in {"", "An answer."}, r \in SearchResults,
            b \in {"", "'str' object has no attribute 'get'"}}

Queries == {"", "   ", "What is Autogen?", "O'Brien"}

\* email.py 59-86, calendar.py 222-286, weather.py 270-295, search.py 151-168:
\* the lists as_function_tools can return
ToolLists(role) ==
    IF role = "email"
    THEN {<<>>, <<"get_current_datetime">>,
          <<"create_gmail_draft", "send_gmail_message", "search_gmail",
            "get_gmail_message", "get_gmail_thread", "get_current_datetime">>}
    ELSE IF role = "weather"
    THEN {<<"get_current_weather", "get_weather_forecast", "check_rain_probability",
            "geocode_location", "get_current_datetime">>}
    ELSE IF role = "calendar"
    THEN {<<"list_calendars", "create_calendar", "insert_event", "list_events",
            "delete_event", "get_current_datetime">>}
    ELSE {<<"web_search", "research_search", "get_current_datetime">>}

\* what the calls of a constructor do; GmailTools.as_function_tools catches
\* its own Exceptions (email.py 66-86)
ConstructorWorlds(role) ==
    {[failing |-> 0, m |-> "", tools |-> l, agent |-> a] :
        l \in ToolLists(role), a \in {"ok", "No time zone found"}}
    \cup {[failing |-> k, m |-> "token.json not found", tools |-> <<>>, agent |-> a] :
            k \in 1..(IF role = "email" THEN 2 ELSE Len(ToolSteps(role))),
            a \in {"ok", "No time zone found"}}

\* ------------------------------------------- operations taken on their own
\* agents.py 197-255: process_request from the return of team.run on, for a
\* collaboration result `run`
Respond(run) ==
    LET body == try_body(run)
        r == process_request_return(body)
    IN
    /\ invocation' = [op |-> "process_request", run |-> run]
    /\ effect' = [op |-> "process_request", value |-> r.value, raised |-> r.raised,
                  caught |-> IF body.ok THEN "-" ELSE body.m,
                  inspected |-> messages_inspected(run)]
    /\ UNCHANGED <<orch_vars, web_vars, tasks>>


\* agents.py 206-244: one pass of the logging loop, over the single message msg
LogStep(msg) ==
    /\ invocation = NoCall
    /\ \E logged \in {log_steps(<<msg>>, 1, <<>>)} :
         /\ invocation' = [op |-> "log_step", msg |-> msg]
         /\ effect' = [op |-> "log_step", logged |-> logged.ok,
                       steps |-> logged.steps, caught |-> logged.m]
    /\ UNCHANGED <<orch_vars, web_vars, tasks>>

\* a tool operation `op` is called with `args` on an adapter that has done
\* nothing yet, its collaborators behave as `w` says, and it ends as `result`
Invocation(op, args, w) == [op |-> op, args |-> args, w |-> w]

Effect(op, result) ==
    [op |-> op, value |-> result.value, raised |-> result.raised,
     calls |-> result.calls, caught |-> result.caught]

ListCalendars(w) ==
    \E result \in {list_calendars(w)} :
        /\ invocation = NoCall
        /\ invocation' = Invocation("list_calendars", <<>>, w)
        /\ effect' = Effect("list_calendars", result)
        /\ UNCHANGED <<orch_vars, web_vars, tasks>>

CreateCalendar(input_str, w) ==
    \E result \in {create_calendar(input_str, w)} :
        /\ invocation = NoCall
        /\ invocation' = Invocation("create_calendar", <<input_str>>, w)
        /\ effect' = Effect("create_calendar", result)
        /\ UNCHANGED <<orch_vars, web_vars, tasks>>

InsertEvent(input_str, w) ==
    \E result \in {insert_event(input_str, w)} :
        /\ invocation = NoCall
        /\ invocation' = Invocation("insert_event", <<input_str>>, w)
        /\ effect' = Effect("insert_event", result)
        /\ UNCHANGED <<orch_vars, web_vars, tasks>>

ListEvents(input_str, w) ==
    \E result \in {list_events(input_str, w)} :
        /\ invocation = NoCall
        /\ invocation' = Invocation("list_events", <<input_str>>, w)
        /\ effect' = Effect("list_events", result)
        /\ UNCHANGED <<orch_vars, web_vars, tasks>>

DeleteEvent(input_str, w) ==
    \E result \in {delete_event(input_str, w)} :
        /\ invocation = NoCall
        /\ invocation' = Invocation("delete_event", <<input_str>>, w)
        /\ effect' = Effect("delete_event", result)
        /\ UNCHANGED <<orch_vars, web_vars, tasks>>

GetCurrentDatetime(w) ==
    \E result \in {get_current_datetime(w)} :
        /\ invocation = NoCall
        /\ invocation' = Invocation("get_current_datetime", <<>>, w)
        /\ effect' = Effect("get_current_datetime", result)
        /\ UNCHANGED <<orch_vars, web_vars, tasks>>

GetCurrentWeather(location, w) ==
    \E result \in {get_current_weather(location, w)} :
        /\ invocation = NoCall
        /\ invocation' = Invocation("get_current_weather", <<location>>, w)
        /\ effect' = Effect("get_current_weather", result)
        /\ UNCHANGED <<orch_vars, web_vars, tasks>>

GetWeatherForecast(location, forecast_type, w) ==
    \E result \in {get_weather_forecast(location, forecast_type, w)} :
        /\ invocation = NoCall
        /\ invocation' = Invocation("get_weather_forecast", <<location, forecast_type>>, w)
        /\ effect' = Effect("get_weather_forecast", result)
        /\ UNCHANGED <<orch_vars, web_vars, tasks>>

\* weather.py 203-257: check_rain_probability at the hour current_hour of the
\* clock; the figures of the report are kept beside the text
CheckRainProbability(location, time_period, current_hour, w) ==
    \E b \in {check_rain_probability_body(location, time_period, current_hour, w)} :
    \E result \in {check_rain_probability(location, time_period, current_hour, w)} :
    /\ invocation = NoCall
    /\ invocation' = [op |-> "check_rain_probability",
                      args |-> <<location, time_period>>, w |-> w,
                      current_hour |-> current_hour]
    /\ effect' = [op |-> "check_rain_probability", value |-> result.value,
                  raised |-> result.raised, calls |-> result.calls,
                  caught |-> result.caught,
                  reported |-> b.reported, figures |-> b.figures]
    /\ UNCHANGED <<orch_vars, web_vars, tasks>>

GeocodeLocation(location, w) ==
    \E result \in {geocode_location(location, w)} :
        /\ invocation = NoCall
        /\ invocation' = Invocation("geocode_location", <<location>>, w)
        /\ effect' = Effect("geocode_location", result)
        /\ UNCHANGED <<orch_vars, web_vars, tasks>>

WebSearch(query, w) ==
    \E result \in {web_search(query, w)} :
        /\ invocation = NoCall
        /\ invocation' = Invocation("web_search", <<query>>, w)
        /\ effect' = Effect("web_search", result)
        /\ UNCHANGED <<orch_vars, web_vars, tasks>>

ResearchSearch(topic, w) ==
    \E result \in {research_search(topic, w)} :
        /\ invocation = NoCall
        /\ invocation' = Invocation("research_search", <<topic>>, w)
        /\ effect' = Effect("research_search", result)
        /\ UNCHANGED <<orch_vars, web_vars, tasks>>

\* agents.py 44-123: one of the four constructors, called on its own
ConstructAgent(role, w) ==
    \E result \in {construct_agent(role, w)} :
        /\ invocation = NoCall
        /\ invocation' = Invocation("create_agent", <<role>>, w)
        /\ effect' = [op |-> "create_agent", returned |-> result.returned,
                      agent |-> result.agent, raised |-> result.raised,
                      calls |-> result.calls, caught |-> result.caught]
        /\ UNCHANGED <<orch_vars, web_vars, tasks>>

\* ---------------------------------------------------------- specifications
Init ==
    /\ agents_initialized = FALSE
    /\ agent_fields = [r \in RoleSet |-> NoAgent]
    /\ agent_list = NoList
    /\ conversation_context = {}
    /\ tasks = <<>>
    /\ req = NoReq
    /\ resp = NoResp
    /\ verifier_calls = 0
    /\ scheduled = 0
    /\ gathers = 0
    /\ assigned = {}
    /\ invocation = NoCall
    /\ effect = NoEffect

Deliver == slack_events(Delivery(Len(tasks) + 1))

Receive == \E r \in Requests : slack_events(r)

Next ==
    \/ Deliver
    \/ \E i \in TaskIds : HandlerStart(i)
    \/ \E i \in TaskIds : AckFails(i)
    \/ \E i \in TaskIds : AckPosted(i)
    \/ \E i \in TaskIds, role \in RoleSet : ConstructDone(i, role)
    \/ \E i \in TaskIds, role \in RoleSet : ConstructRaises(i, role)
    \/ \E i \in TaskIds : GatherJoin(i)
    \/ \E i \in TaskIds, outcome \in BodyOutcomes : RunEnds(i, outcome)
    \/ \E i \in TaskIds, postOk \in BOOLEAN : FinalPost(i, postOk)

\* the assistant: mention events delivered, handled in the background
Spec == Init /\ [][Next]_vars

\* the endpoint alone: every request of the model, no handler running
SpecWebhook == Init /\ [][Receive]_vars

\* the tool operations, each called with the inputs of the model
ToolCall ==
    \/ \E w \in ListCalendarsWorlds : ListCalendars(w)
    \/ \E x \in CreateCalendarInputs, w \in CreateCalendarWorlds : CreateCalendar(x, w)
    \/ \E x \in InsertInputs, w \in InsertWorlds : InsertEvent(x, w)
    \/ \E x \in ListEventsInputs, w \in ListEventsWorlds : ListEvents(x, w)
    \/ \E x \in DeleteInputs, w \in DeleteWorlds : DeleteEvent(x, w)
    \/ \E w \in ClockWorlds : GetCurrentDatetime(w)
    \/ \E l \in Locations, w \in WeatherWorlds : GetCurrentWeather(l, w)
    \/ \E l \in Locations, f \in ForecastTypes, w \in WeatherWorlds :
          GetWeatherForecast(l, f, w)
    \/ \E t \in TimePeriods, h \in Hours, w \in RainWorlds :
          CheckRainProbability("Paris", t, h, w)
    \/ \E l \in Locations, w \in WeatherWorlds : GeocodeLocation(l, w)
    \/ \E q \in Queries, w \in SearchWorlds : WebSearch(q, w)
    \/ \E q \in Queries, w \in SearchWorlds : ResearchSearch(q, w)

\* the tool adapters, each operation called on its own
SpecTools == Init /\ [][ToolCall]_vars

RespondAny == \E run \in RunOutcomes : Respond(run)

\* process_request after team.run, over every collaboration result of the model
SpecRespond == Init /\ [][RespondAny]_vars

ConstructAny ==
    \E role \in RoleSet : \E w \in ConstructorWorlds(role) : ConstructAgent(role, w)

\* the operations of agents.py taken on their own: a constructor, or
\* process_request after team.run
SpecAgents == Init /\ [][ConstructAny \/ RespondAny]_vars

\* The scopes of the program side by side: the assistant serving mentions,
\* or, instead, one operation of a tool adapter or one agent constructor
\* called on its own.
\* no operation has been called on its own
Serving == invocation = NoCall

\* nothing has happened yet
Untouched == invocation = NoCall /\ req = NoReq


LogAny == \E msg \in LogSamples : LogStep(msg)

\* the logging loop of process_request applied to one message
SpecLog == Init /\ [][LogAny]_vars


CheckRainAny ==
    \E t \in TimePeriods, h \in Hours, w \in SeriesWorlds :
        CheckRainProbability("Paris", t, h, w)

\* check_rain_probability over every hour, period and length of the series
SpecRain == Init /\ [][CheckRainAny]_vars

NextScopes ==
    \/ Serving /\ Deliver
    \/ Serving /\ \E i \in TaskIds : HandlerStart(i)
    \/ Serving /\ \E i \in TaskIds : AckFails(i)
    \/ Serving /\ \E i \in TaskIds : AckPosted(i)
    \/ Serving /\ \E i \in TaskIds, role \in RoleSet : ConstructDone(i, role)
    \/ Serving /\ \E i \in TaskIds, role \in RoleSet : ConstructRaises(i, role)
    \/ Serving /\ \E i \in TaskIds : GatherJoin(i)
    \/ Serving /\ \E i \in TaskIds, outcome \in BodyOutcomes : RunEnds(i, outcome)
    \/ Serving /\ \E i \in TaskIds, postOk \in BOOLEAN : FinalPost(i, postOk)
    \/ Untouched /\ \E w \in ListCalendarsWorlds : ListCalendars(w)
    \/ Untouched /\ \E x \in CreateCalendarInputs, w \in CreateCalendarWorlds : CreateCalendar(x, w)
    \/ Untouched /\ \E x \in InsertInputs, w \in InsertWorlds : InsertEvent(x, w)
    \/ Untouched /\ \E x \in ListEventsInputs, w \in ListEventsWorlds : ListEvents(x, w)
    \/ Untouched /\ \E x \in DeleteInputs, w \in DeleteWorlds : DeleteEvent(x, w)
    \/ Untouched /\ \E w \in ClockWorlds : GetCurrentDatetime(w)
    \/ Untouched /\ \E l \in Locations, w \in WeatherWorlds : GetCurrentWeather(l, w)
    \/ Untouched /\ \E l \in Locations, f \in ForecastTypes, w \in WeatherWorlds :
              GetWeatherForecast(l, f, w)
    \/ Untouched /\ \E t \in TimePeriods, h \in Hours, w \in RainWorlds :
              CheckRainProbability("Paris", t, h, w)
    \/ Untouched /\ \E l \in Locations, w \in WeatherWorlds : GeocodeLocation(l, w)
    \/ Untouched /\ \E q \in Queries, w \in SearchWorlds : WebSearch(q, w)
    \/ Untouched /\ \E q \in Queries, w \in SearchWorlds : ResearchSearch(q, w)
    \/ Untouched /\ ConstructAny

SpecScopes == Init /\ [][NextScopes]_vars

\* ------------------------------------------------------------------ claims
\* the chat_postMessage call that acknowledges the event of task t
AckOf(t) == [channel |-> t.event.channel, text |-> AckText, thread_ts |-> t.event.ts]

\* the timestamp header of r is absent, or an integer more than 300 s from now
Stale(r) ==
    \/ r.ts.k = "absent"
    \/ r.ts.k = "int" /\ (r.now - r.ts.v > 300 \/ r.ts.v - r.now > 300)

\* the timestamp header of r is an integer at most 300 s from now
InWindow(r) ==
    r.ts.k = "int" /\ r.now - r.ts.v <= 300 /\ r.ts.v - r.now <= 300

\* C1: process_request never raises and, whatever initialisation and the
\* collaboration run do, returns a string.
C1_AlwaysReturnsString ==
    \A i \in TaskIds :
        /\ tasks[i].pr # "raised"
        /\ tasks[i].pr = "returned" => IsStr(tasks[i].result)

\* C2: two callers that enter the initialisation concurrently run the four
\* constructors once and assign one agent list.
C2_SingleInitialization == gathers <= 1 /\ Cardinality(assigned) <= 1

\* C3: for a mention event with channel C and ts T the handler issues the
\* acknowledgment to (C, T) first and, only after process_request has
\* returned, the final text to (C, T); it ends with these two posts, or on an
\* internal failure with the acknowledgment alone; no other number or order.
C3_PostsOfAMention ==
    \A i \in TaskIds :
        LET t == tasks[i] IN
        /\ Len(t.posts) <= 2
        /\ Len(t.posts) >= 1 => t.posts[1] = AckOf(t)
        /\ Len(t.posts) = 2 =>
              /\ t.pr = "returned"
              /\ t.posts[2].channel = t.event.channel
              /\ t.posts[2].thread_ts = t.event.ts
              /\ IsStr(t.result) => t.posts[2].text = t.result
        /\ t.pc = "done" =>
              /\ Len(t.posts) \in {1, 2}
              /\ Len(t.posts) = 1 => t.failure # "none"
              /\ t.failure = "none" => t.delivered = 2

\* C3 witness: one handler has ended with its two posts delivered, another
\* with the acknowledgment alone
C3_Witness ==
    \E i, j \in TaskIds :
        /\ tasks[i].pc = "done" /\ Len(tasks[i].posts) = 2 /\ tasks[i].delivered = 2
        /\ tasks[i].posts[2].text = Str("It is sunny.")
        /\ tasks[j].pc = "done" /\ Len(tasks[j].posts) = 1 /\ tasks[j].failure # "none"

\* C4 (as claimed): a request whose timestamp header is absent or more than
\* 300 s from now is answered 400 and never reaches the verifier.
C4_StaleRejected ==
    (req.body = "object" /\ Stale(req)) =>
        resp.status = 400 /\ verifier_calls = 0

\* C4 (amended): no such request reaches the verifier, and it is answered 400
\* unless its payload is a url_verification payload.
C4_StaleRejectedAfterHandshake ==
    /\ (req.body # "none" /\ Stale(req)) => verifier_calls = 0 /\ scheduled = 0
    /\ (req.body = "object" /\ req.type # "url_verification" /\ Stale(req)) =>
          resp = Http(400, "detail", Str("Invalid timestamp"))

\* C4 witness: a signed event 301 s in the future is answered 400
C4_Witness ==
    /\ req.body = "object" /\ req.type = "event_callback"
    /\ req.ts.k = "int" /\ req.ts.v - req.now = 301
    /\ req.sig = "valid" /\ req.event.type = "app_mention"
    /\ resp.status = 400 /\ verifier_calls = 0

\* C5 (as claimed): a request with a timestamp in the window and a signature
\* that fails verification is answered 400 and schedules no background task.
C5_BadSignatureRejected ==
    (req.body = "object" /\ InWindow(req) /\ req.sig # "valid") =>
        resp.status = 400 /\ scheduled = 0

\* C5 (amended): such a request schedules no background task, and it is
\* answered 400 unless its payload is a url_verification payload.
C5_BadSignatureRejectedAfterHandshake ==
    /\ (req.body # "none" /\ InWindow(req) /\ req.sig # "valid") => scheduled = 0
    /\ (req.body = "object" /\ req.type # "url_verification"
          /\ InWindow(req) /\ req.sig # "valid") =>
          /\ resp = Http(400, "detail", Str("Invalid Slack signature"))
          /\ verifier_calls = 1

\* C5 witness: a mention with a timestamp at the edge of the window and a bad
\* signature is answered 400
C5_Witness ==
    /\ req.body = "object" /\ req.type = "event_callback"
    /\ req.ts.k = "int" /\ req.now - req.ts.v = 300
    /\ req.sig = "invalid" /\ req.event.type = "app_mention"
    /\ resp.status = 400 /\ scheduled = 0 /\ tasks = <<>>

\* C6: a url_verification payload is answered with its own challenge value,
\* whatever the headers, and schedules no background task.
C6_ChallengeEcho ==
    (req.body = "object" /\ req.type = "url_verification") =>
        /\ resp = Http(200, "challenge", req.challenge)
        /\ scheduled = 0

\* C6 witness: a challenge without timestamp and with a bad signature is echoed
C6_Witness ==
    /\ req.body = "object" /\ req.type = "url_verification"
    /\ req.ts.k = "absent" /\ req.sig = "invalid"
    /\ req.challenge = Str("3eZbrw1aB")
    /\ resp.value = Str("3eZbrw1aB")

\* C7: every request with a JSON object payload ends in the challenge echo,
\* a 400 rejection or {"ok": true}, a timestamp header that is not an integer
\* included.
C7_ThreeOutcomes ==
    (req.body = "object" /\ req.event.k # "nondict") =>
        \/ resp.status = 200 /\ resp.body \in {"challenge", "ok"}
        \/ resp.status = 400

\* C8: the step of slack_events that accepts a mention produces the
\* {"ok": true} response while only adding the task: the handler has not
\* started, has posted nothing and has not called process_request.
C8_ResponseDoesNotWait ==
    [][Len(tasks') > Len(tasks) =>
          /\ resp' = Http(200, "ok", Str("true"))
          /\ Len(tasks') = Len(tasks) + 1
          /\ SubSeq(tasks', 1, Len(tasks)) = tasks
          /\ tasks'[Len(tasks')].pc = "queued"
          /\ tasks'[Len(tasks')].posts = <<>>
          /\ tasks'[Len(tasks')].pr = "none"]_vars

\* C8 witness: the response to a mention is there while its handler has not
\* started and an earlier handler is still awaiting the collaboration run
C8_Witness ==
    /\ Len(tasks) = 2
    /\ resp = Http(200, "ok", Str("true"))
    /\ req.event.ev = tasks[2].event
    /\ tasks[2].pc = "queued" /\ tasks[2].posts = <<>>
    /\ tasks[1].pc = "run"

\* C9: no Exception leaves the handler; when a post or anything else on its
\* path fails, the handler ends and issues no further post.
C9_HandlerNeverRaises ==
    \A i \in TaskIds :
        LET t == tasks[i] IN
        /\ ~t.escaped
        /\ t.failure # "none" =>
              /\ t.pc = "done"
              /\ t.failure \in {"ack_post", "process_request", "reply_text"} =>
                    Len(t.posts) = 1
              /\ t.failure = "ack_post" => t.delivered = 0
              /\ t.failure = "final_post" => Len(t.posts) = 2 /\ t.delivered = 1

\* C9 witness: the three failures of the path have happened: each post has
\* failed for some handler, and a result without .get has been returned
C9_Witness ==
    \E i, j \in TaskIds :
        /\ tasks[i].failure = "ack_post"
        /\ tasks[j].failure \in {"final_post", "reply_text"}

\* C10: when an Exception with message m reaches the except clause of
\* process_request, the call returns exactly "Error: " followed by m, and
\* the handler posts that string as the reply.
C10_ErrorString ==
    \A i \in TaskIds :
        LET t == tasks[i] IN
        t.caught # "-" =>
            /\ t.pr = "returned"
            /\ t.result = Str("Error: " \o t.caught)
            /\ t.pc = "done" =>
                  /\ Len(t.posts) = 2
                  /\ t.posts[2].text = Str("Error: " \o t.caught)

\* C10 witness: the run raised "boom" for one request, a constructor raised
\* for another, and both error strings were posted
C10_Witness ==
    \E i, j \in TaskIds :
        /\ tasks[i].caught = "boom" /\ tasks[i].pc = "done"
        /\ tasks[i].delivered = 2
        /\ tasks[i].posts[2].text = Str("Error: boom")
        /\ tasks[j].caught = "No time zone found" /\ tasks[j].pc = "done"
        /\ Len(tasks[j].posts) = 2
        /\ tasks[j].posts[2].text = Str("Error: No time zone found")

\* the messages of the collaboration result that was answered, and the last one
AnsweredMsgs == invocation.run.msgs
LastMsg == AnsweredMsgs[Len(AnsweredMsgs)]

\* no attribute access and no str() of message m raises
Quiet(m) ==
    /\ \A x \in AttrNames : m.attrs[x].k \in {"absent", "val"}
    /\ m.str.ok

\* C11: a collaboration result without messages (messages missing, None or
\* empty) makes process_request return "No response generated" without
\* looking at any message.
C11_NoMessagesSentinel ==
    (invocation.op = "process_request"
       /\ (invocation.run.k \in {"noattr", "none"}
             \/ (invocation.run.k = "msgs" /\ invocation.run.msgs = <<>>))) =>
        /\ effect.value = [t |-> "str", v |-> "No response generated"]
        /\ ~effect.raised
        /\ effect.caught = "-"
        /\ effect.inspected = 0

\* C11 witness: the result had an empty message sequence and the sentinel
\* was returned
C11_Witness ==
    /\ invocation.op = "process_request"
    /\ invocation.run.k = "msgs" /\ invocation.run.msgs = <<>>
    /\ effect.value.v = "No response generated"

\* C12 (as claimed): for a non-empty message sequence the value returned is
\* the content of the last message, or that message's string form when it
\* has no content; the messages before it make no difference.
C12_LastMessageDecides ==
    (invocation.op = "process_request" /\ invocation.run.k = "msgs"
       /\ AnsweredMsgs # <<>> /\ Quiet(LastMsg)) =>
        LET c == LastMsg.attrs["content"] IN
        IF c.k = "val" /\ Truthy(c.v)
        THEN effect.value = c.v
        ELSE effect.value = LastMsg.str.v

\* C12 (amended): the same, as long as no attribute access or str() of any
\* message of the sequence raises; "no content" is a content that is missing,
\* None or empty.  If a message raises, the earlier ones included, the value
\* returned is the error string of that Exception.
C12_LastMessageUnlessRaised ==
    (invocation.op = "process_request" /\ invocation.run.k = "msgs"
       /\ AnsweredMsgs # <<>>) =>
        LET c == LastMsg.attrs["content"] IN
        /\ (\A k \in 1..Len(AnsweredMsgs) : Quiet(AnsweredMsgs[k])) =>
              /\ effect.caught = "-"
              /\ IF c.k = "val" /\ Truthy(c.v)
                 THEN effect.value = c.v
                 ELSE effect.value = LastMsg.str.v
        /\ effect.caught # "-" =>
              /\ \E k \in 1..Len(AnsweredMsgs) : ~Quiet(AnsweredMsgs[k])
              /\ effect.value = [t |-> "str", v |-> "Error: " \o effect.caught]

\* C12 witness: a tool-call message followed by a message with an empty
\* content is answered with the string form of the last message
C12_Witness ==
    /\ invocation.op = "process_request" /\ invocation.run.k = "msgs"
    /\ Len(AnsweredMsgs) = 2
    /\ AnsweredMsgs[1].attrs["content"].v.t = "list"
    /\ LastMsg.attrs["content"] = Has(Str(""))
    /\ effect.value = Str("<TextMessage>")

\* the operations of the three tool adapters
ToolOps ==
    {"list_calendars", "create_calendar", "insert_event", "list_events",
     "delete_event", "get_current_weather", "get_weather_forecast",
     "check_rain_probability", "geocode_location", "web_search",
     "research_search", "get_current_datetime"}

\* a string that reports an error and ends in the message m of the Exception
ErrorString(value, m) ==
    /\ value.t = "str"
    /\ startswith(value.v, "Error ")
    /\ endswith(value.v, m)

\* C13 as stated: every tool operation returns a string and raises nothing,
\* and an Exception caught inside the operation is turned into an error
\* string.  get_current_datetime refutes the last part: it answers the
\* time in UTC instead.
C13_ExceptionBecomesErrorString ==
    effect.op \in ToolOps =>
        /\ ~effect.raised
        /\ effect.value.t = "str"
        /\ effect.caught # "-" => ErrorString(effect.value, effect.caught)

\* C13, amended: every tool operation returns a string and raises nothing;
\* an Exception caught inside an operation other than get_current_datetime
\* is turned into an error string that ends in its message, and one caught
\* inside get_current_datetime into the current time in UTC.
C13_StringNeverRaised ==
    effect.op \in ToolOps =>
        /\ ~effect.raised
        /\ effect.value.t = "str"
        /\ (effect.caught # "-" /\ effect.op # "get_current_datetime")
              => ErrorString(effect.value, effect.caught)
        /\ (effect.caught # "-" /\ effect.op = "get_current_datetime")
              => effect.value = Str(invocation.w.utc)

\* C13 witness: the insertion of a well-formed event failed at the calendar,
\* and insert_event returned the error string
C13_Witness ==
    /\ effect.op = "insert_event"
    /\ effect.caught = "HttpError 403"
    /\ Len(effect.calls) > 0
    /\ effect.value = Str("Error creating event: HttpError 403")
    /\ ~effect.raised

\* C14 as stated: when building the tool set raises, the constructor still
\* returns an agent.  Refuted when the construction of the agent itself
\* (the prompt's time zone, AssistantAgent) raises after the tool set failed.
C14_ToolFailureStillReturns ==
    (effect.op = "create_agent" /\ invocation.w.failing # 0) => effect.returned

\* C14, amended: a failure of the tool set is caught and never raised by the
\* constructor, which returns an agent unless building the agent itself
\* raises; a returned agent has an empty tool list when the tool set raised
\* and exactly the provider's list otherwise; no step of the tool set is
\* called twice.
C14_ToolFailureDegrades ==
    effect.op = "create_agent" =>
        LET w == invocation.w
            role == invocation.args[1]
        IN
        /\ effect.returned <=> w.agent = "ok"
        /\ ~effect.returned => effect.raised = w.agent
        /\ (effect.returned /\ w.failing # 0) =>
              effect.agent.tools = <<>> /\ effect.caught = w.m
        /\ (effect.returned /\ w.failing = 0) => effect.agent.tools = w.tools
        /\ \A i, j \in 1..Len(effect.calls) :
              effect.calls[i] = effect.calls[j] => i = j
        /\ Len(effect.calls) <= Len(ToolSteps(role))

\* C14 witness: the credentials of the email agent are missing, and the
\* agent is returned without tools
C14_Witness ==
    /\ effect.op = "create_agent" /\ invocation.args = <<"email">>
    /\ invocation.w.failing = 1
    /\ effect.calls = <<"get_gmail_service">>
    /\ effect.returned /\ effect.agent = [name |-> "EmailAssistant", tools |-> <<>>]

\* the fields of an input of insert_event
FieldsOf(input_str) == strip_all(split(parse_input(input_str), "|"))

\* an input of insert_event of 6 or 7 fields with a date, a time and a
\* duration that parse
WellFormed(parts) ==
    /\ Len(parts) \in {6, 7}
    /\ fromisoformat(parts[2], parts[3]).ok
    /\ float_hundredths(parts[4]).ok

\* the events().insert calls among the calls of an operation
InsertCalls == SelectSeq(effect.calls, LAMBDA c : c.api = "events.insert")

\* the non-empty comma-separated emails of a field, stripped, in order
EmailsOf(field) ==
    LET pieces == split(field, ",") IN
    SelectSeq([i \in 1..Len(pieces) |-> strip(pieces[i])], LAMBDA e : Len(e) > 0)

\* C15: insert_event on a well-formed input, once the calendar service is
\* obtained, submits exactly one event, to the primary calendar, that starts
\* at the given date and time, ends duration_hours later, has one attendee
\* per non-empty email and asks for a conference; the example of the claim
\* gives 14:30 to 15:30 with two attendees.  No input submits two events,
\* and a malformed input submits none.
C15_InsertSubmitsOneEvent ==
    effect.op = "insert_event" =>
        LET input_str == invocation.args[1]
            parts == FieldsOf(input_str)
            obtained == invocation.w.service \in {"cached", "ok"}
        IN
        /\ Len(InsertCalls) <= 1
        /\ ~WellFormed(parts) => Len(InsertCalls) = 0
        /\ (WellFormed(parts) /\ obtained) =>
              /\ Len(InsertCalls) = 1
              /\ LET c == InsertCalls[1]
                     start == fromisoformat(parts[2], parts[3]).v
                     hundredths == float_hundredths(parts[4]).v
                 IN
                 /\ c.calendarId = "primary"
                 /\ c.body.summary = parts[1]
                 /\ c.body.start.dateTime = parts[2] \o "T" \o parts[3] \o ":00"
                 /\ c.body.end.dateTime = isoformat(plus_hours(start, hundredths))
                 /\ c.body.attendees = EmailsOf(parts[5])
                 /\ c.body.conferenceData.createRequest.conferenceSolutionKey
                      = "hangoutsMeet"
                 /\ c.conferenceDataVersion = 1
        /\ (input_str = "Sync | 2025-06-15 | 14:30 | 1 | a@x.com,b@x.com | desc"
             /\ obtained) =>
              /\ InsertCalls[1].body.start.dateTime = "2025-06-15T14:30:00"
              /\ InsertCalls[1].body.end.dateTime = "2025-06-15T15:30:00"
              /\ InsertCalls[1].body.attendees = <<"a@x.com", "b@x.com">>

\* C15 witness: the example of the claim was submitted and created
C15_Witness ==
    /\ effect.op = "insert_event"
    /\ invocation.args = <<"Sync | 2025-06-15 | 14:30 | 1 | a@x.com,b@x.com | desc">>
    /\ Len(InsertCalls) = 1
    /\ InsertCalls[1].body.end.dateTime = "2025-06-15T15:30:00"
    /\ Len(InsertCalls[1].body.attendees) = 2
    /\ effect.caught = "-"
    /\ startswith(effect.value.v, "Created event 'Sync'")

\* the hourly series a call of check_rain_probability was answered with
HourlyOf(w) == w.api.v.hourly

\* C16: whenever check_rain_probability reports, the maximum it reports is
\* the greatest probability of the hours of the window selected for the
\* period, the label is "very likely" from 70, "likely" from 50, "possible"
\* from 30 and "unlikely" below, and the peak time is the time stamp of the
\* first hour of that window that attains the maximum; the text returned
\* carries the three.
C16_RainReportOverWindow ==
    (effect.op = "check_rain_probability" /\ effect.reported) =>
        LET hourly == HourlyOf(invocation.w)
            probs == hourly.precipitation_probability
            win == rain_window(invocation.args[2], invocation.current_hour,
                               Len(hourly.time))
            window == {i \in 1..Len(hourly.time) : win.start < i /\ i <= win.end}
            f == effect.figures
        IN
        /\ window # {}
        /\ \E i \in window :
              /\ probs[i] = f.max_prob
              /\ hourly.time[i] = f.peak_time
              /\ \A j \in window : j < i => probs[j] < f.max_prob
        /\ \A i \in window : probs[i] <= f.max_prob
        /\ f.label = (IF f.max_prob >= 70 THEN "Rain is very likely"
                      ELSE IF f.max_prob >= 50 THEN "Rain is likely"
                      ELSE IF f.max_prob >= 30 THEN "Rain is possible"
                      ELSE "Rain is unlikely")
        /\ contains(effect.value.v,
                    "Maximum rain probability: " \o Decimal(f.max_prob, 1) \o "%")
        /\ contains(effect.value.v, "Peak rain time: " \o f.peak_time \o "\n")
        /\ endswith(effect.value.v, f.label)

\* C16 witness: asked at 10 o'clock about tomorrow, with a forecast whose
\* greatest probability tomorrow is 50 at hours 20 and 21 of the series, the
\* report says "likely" and names the first of the two hours
C16_Witness ==
    /\ effect.op = "check_rain_probability" /\ effect.reported
    /\ invocation.args[2] = "tomorrow" /\ invocation.current_hour = 10
    /\ Len(HourlyOf(invocation.w).time) = 72
    /\ effect.figures.max_prob = 50
    /\ effect.figures.label = "Rain is likely"
    /\ effect.figures.peak_time = "2025-06-15T20:00"

\* the events().delete and events().list calls among the calls of an operation
DeleteCalls == SelectSeq(effect.calls, LAMBDA c : c.api = "events.delete")
ListCalls == SelectSeq(effect.calls, LAMBDA c : c.api = "events.list")

\* the positions of the listed events that have a title containing the
\* query, whatever the case of the letters
TitledMatches(events, query) ==
    {i \in 1..Len(events) :
        /\ events[i].summary.k = "val"
        /\ contains(lower(events[i].summary.v.v), lower(query))}

\* C17 as stated: delete_event, given the list of upcoming events, issues at
\* most one delete call; when an event has a title containing the query it
\* deletes the first such event, and when none has it issues no delete call
\* and answers "No event found"; the list is requested without expansion of
\* recurring events exactly when the scope is "all".  Refuted by an empty
\* query when the first upcoming event has no title.
C17_DeletesFirstMatch ==
    (effect.op = "delete_event" /\ invocation.w.service \in {"cached", "ok"}
     /\ invocation.w.list.ok) =>
        LET parts == FieldsOf(invocation.args[1])
            events == invocation.w.list.v
            hits == TitledMatches(events, parts[1])
        IN
        /\ Len(DeleteCalls) <= 1
        /\ Len(ListCalls) = 1
        /\ ListCalls[1].singleEvents = (delete_scope(parts) # "all")
        /\ hits = {} =>
              /\ DeleteCalls = <<>>
              /\ startswith(effect.value.v, "No event found")
        /\ hits # {} =>
              /\ Len(DeleteCalls) = 1
              /\ \E i \in hits :
                    /\ DeleteCalls[1].eventId = events[i].id
                    /\ \A j \in hits : i <= j

\* no two calls of a list of external calls go to the same endpoint
EachOnce(calls) ==
    \A i, j \in 1..Len(calls) : calls[i].api = calls[j].api => i = j

\* C18: nothing is attempted a second time.  A webhook request calls the
\* verifier and schedules a handler at most once; a handler issues at most
\* the acknowledgment post and one answer post, and no post after one that
\* failed; a call of process_request starts at most one initialization and
\* at most one collaboration run; a constructor calls each step of its tool
\* set at most once; a tool operation calls each endpoint at most once.
C18_NoRetry ==
    /\ verifier_calls <= 1
    /\ scheduled <= 1
    /\ \A i \in TaskIds :
          LET t == tasks[i] IN
          /\ Len(t.posts) <= 2
          /\ t.failure = "ack_post" => Len(t.posts) = 1
          /\ t.delivered <= Len(t.posts)
          /\ t.inits <= 1
          /\ t.runs <= 1
    /\ effect.op = "create_agent" =>
          \A i, j \in 1..Len(effect.calls) :
              effect.calls[i] = effect.calls[j] => i = j
    /\ effect.op \in ToolOps => EachOnce(effect.calls)

\* C18 witness: a web search whose request failed was answered with the
\* error string after that one request
C18_Witness ==
    /\ effect.op = "web_search"
    /\ effect.caught = "ReadTimeout"
    /\ Len(effect.calls) = 1
    /\ effect.value = Str("Error performing web search for 'What is Autogen?': ReadTimeout")

\* C19 as stated: once the readiness flag is set, nothing clears it, no
\* constructor runs any more, and the four agent fields and agent_list keep
\* their values.  Refuted by a call of _initialize_agents that passed the
\* test of the flag before another call set it (the defect of C2).
C19_ReadyIsFinal ==
    [][agents_initialized =>
          /\ agents_initialized'
          /\ agent_fields' = agent_fields
          /\ agent_list' = agent_list
          /\ gathers' = gathers
          /\ \A i \in TaskIds : tasks'[i].built \subseteq tasks[i].built]_vars

\* C20: a call of process_request starts at most one initialization.  When
\* a constructor of its gather raises, the call leaves the gather for good
\* (no collaboration run, no second gather) and assigns nothing: the flag,
\* the agent fields and agent_list stay as they were.  Whenever the flag is
\* unset, the next call that reaches _initialize_agents starts the gather of
\* the four constructors anew, so no failure blocks initialization.
C20_FailedInitializationIsRetriedByNextCall ==
    /\ [](\A i \in TaskIds : tasks[i].inits <= 1)
    /\ [][\A i \in TaskIds :
            /\ (tasks[i].pc = "gather" /\ tasks'[i].pc \notin {"gather", "run"}) =>
                  /\ UNCHANGED <<agents_initialized, agent_fields, agent_list,
                                 gathers, assigned>>
                  /\ tasks'[i].pc = "returned"
                  /\ tasks'[i].caught # "-"
                  /\ tasks'[i].inits = 1 /\ tasks'[i].runs = 0
            /\ (tasks[i].pc = "ack" /\ tasks'[i].delivered = 1
                 /\ ~agents_initialized) =>
                  /\ tasks'[i].pc = "gather"
                  /\ tasks'[i].built = {}
                  /\ tasks'[i].inits = 1
                  /\ gathers' = gathers + 1
         ]_vars

\* C20 witness: the initialization of one call failed, and another call
\* ran its own gather, set the flag and went on to the collaboration run
C20_Witness ==
    \E i, j \in TaskIds :
        /\ tasks[i].caught = "No time zone found"
        /\ tasks[i].inits = 1 /\ tasks[i].runs = 0 /\ tasks[i].pc = "done"
        /\ tasks[j].inits = 1 /\ tasks[j].runs = 1
        /\ agents_initialized /\ gathers = 2 /\ Cardinality(assigned) = 1

\* the initialization started by the call of process_request of task t has
\* failed: its gather was left without a collaboration run
InitializationFailed(t) == t.inits = 1 /\ t.runs = 0 /\ t.pc # "gather"

\* C21 as stated: a constructor that raises during the initialization made
\* by process_request makes process_request raise to its caller.  Refuted:
\* the call of _initialize_agents is inside the try of process_request.
C21_ConstructorFailurePropagates ==
    \A i \in TaskIds : InitializationFailed(tasks[i]) => tasks[i].pr = "raised"

\* C21, amended: a constructor that raises during the initialization made
\* by process_request is caught by the except clause of process_request,
\* which returns "Error: " followed by the message; nothing reaches the
\* except clause of the caller.
C21_ConstructorFailureReturned ==
    \A i \in TaskIds :
        InitializationFailed(tasks[i]) =>
            /\ tasks[i].pr = "returned"
            /\ tasks[i].caught # "-"
            /\ tasks[i].result = Str("Error: " \o tasks[i].caught)
            /\ tasks[i].failure # "process_request"

\* C21 witness: process_request has just returned the error string of a
\* constructor that raised, before any collaboration run
C21_Witness ==
    \E i \in TaskIds :
        /\ InitializationFailed(tasks[i])
        /\ tasks[i].pc = "returned"
        /\ tasks[i].result = Str("Error: No time zone found")
        /\ ~agents_initialized

\* a list of the four agents, one per role, in the order email, weather,
\* calendar, search, all built by the same gather
CompleteList(list) ==
    /\ Len(list) = 4
    /\ list[1].name = "email" /\ list[2].name = "weather"
    /\ list[3].name = "calendar" /\ list[4].name = "search"
    /\ \A k \in 1..4 : list[k] # NoAgent /\ list[k].by = list[1].by

\* C22: whenever the readiness flag is set, agent_list is the complete list
\* of the four agents in the fixed order and holds the four agent fields;
\* the flag is set, and a gather is left for the collaboration run, only by
\* a step taken when all four constructors of that gather have completed;
\* every collaboration run has been handed a complete list.
C22_ReadyMeansFourAgents ==
    /\ [](agents_initialized =>
            /\ CompleteList(agent_list)
            /\ \A k \in 1..4 : agent_list[k] = agent_fields[Roles[k]])
    /\ [](\A i \in TaskIds : tasks[i].pc = "run" => CompleteList(tasks[i].team))
    /\ [][\A i \in TaskIds :
            (tasks[i].pc = "gather" /\ tasks'[i].pc = "run") =>
                /\ tasks[i].built = RoleSet
                /\ agents_initialized'
                /\ tasks'[i].team = agent_list']_vars
    /\ [][(~agents_initialized /\ agents_initialized') =>
            \E i \in TaskIds : tasks[i].pc = "gather" /\ tasks[i].built = RoleSet]_vars

\* C22 witness: the flag is set and a run holds the four agents, while the
\* gather of another call has completed only some of its constructors
C22_Witness ==
    \E i, j \in TaskIds :
        /\ agents_initialized
        /\ tasks[i].pc = "run" /\ tasks[i].team = agent_list
        /\ agent_list[3] = [name |-> "calendar", by |-> i]
        /\ tasks[j].pc = "gather"
        /\ tasks[j].built = {"search", "calendar"}


\* ------------------------------------------------------------------- C23
NameOrder == <<"src", "sender", "author", "agent", "role">>
ContentOrder == <<"content", "text", "message", "body">>

\* no attribute of msg raises and str(msg) answers
NothingRaises(msg) ==
    /\ \A a \in AttrNames : msg.attrs[a].k \in {"absent", "val"}
    /\ msg.str.ok

\* an attribute is available when the message has it with a value other than None
Available(msg, a) == msg.attrs[a].k = "val" /\ msg.attrs[a].v # NoneV

\* the value of the first available attribute in order, else the fallback
ChainValue(msg, order, fallback) ==
    IF \E i \in 1..Len(order) : Available(msg, order[i])
    THEN msg.attrs[order[CHOOSE i \in 1..Len(order) :
                            /\ Available(msg, order[i])
                            /\ \A j \in 1..(i - 1) : ~Available(msg, order[j])]].v
    ELSE fallback

LoggedQuiet == invocation.op = "log_step" /\ NothingRaises(invocation.msg)

\* C23 as stated: for every message the logged name is the first available of
\* src, sender, author, agent, role, else the type name, and the logged content
\* the first available of content, text, message, body, else the string form
C23_FirstAvailableOfBothChains ==
    LoggedQuiet =>
        /\ effect.logged
        /\ Len(effect.steps) = 1
        /\ effect.steps[1].name =
               ChainValue(invocation.msg, NameOrder, Str(invocation.msg.cls))
        /\ effect.steps[1].content =
               ChainValue(invocation.msg, ContentOrder, invocation.msg.str.v)

\* C23 amended: a message that has src is logged under the value of src even
\* when that value is None; without src the name is the first of sender,
\* author, agent, role that is present and not None, else the type name; the
\* content is the first of content, text, message, body that is present and
\* not None, else the string form; the type of the message changes nothing but
\* the fallback name; a message is logged once or the loop ends with an Exception
C23_SrcTakenAsIsOthersSkipNone ==
    /\ LoggedQuiet =>
        /\ effect.logged
        /\ Len(effect.steps) = 1
        /\ effect.steps[1].name =
               IF invocation.msg.attrs["src"].k = "val"
               THEN invocation.msg.attrs["src"].v
               ELSE ChainValue(invocation.msg, NameOrder, Str(invocation.msg.cls))
        /\ effect.steps[1].content =
               ChainValue(invocation.msg, ContentOrder, invocation.msg.str.v)
    /\ invocation.op = "log_step" =>
        \/ effect.logged /\ Len(effect.steps) = 1 /\ effect.caught = ""
        \/ ~effect.logged /\ effect.steps = <<>> /\ effect.caught = "boom"

\* a message whose src is None and whose sender is a str has been logged
C23_Witness ==
    /\ LoggedQuiet
    /\ invocation.msg.attrs["src"] = Has(NoneV)
    /\ invocation.msg.attrs["sender"] = Has(Str("sender"))
    /\ effect.logged
    /\ effect.steps[1].name = NoneV


\* ------------------------------------------------------------------- C24
\* process_request has returned for task i after awaiting team.run
RanAndReturned(i) == tasks[i].pr = "returned" /\ tasks[i].runs = 1

RecurrenceField ==
    LET parts == FieldsOf(invocation.args[1]) IN
    IF Len(parts) = 7 THEN parts[7] ELSE ""

\* the natural-language fields of the inputs and the rules the claim gives
Translated ==
    [f \in {"daily until 2025-12-31", "Weekly UNTIL 2025-07-01"} |->
        IF f = "daily until 2025-12-31"
        THEN "RRULE:FREQ=DAILY;UNTIL=20251231T000000Z"
        ELSE "RRULE:FREQ=WEEKLY;UNTIL=20250701T000000Z"]

\* an event was submitted for an input with a recurrence field
SubmittedWithRecurrence ==
    /\ effect.op = "insert_event"
    /\ Len(InsertCalls) = 1
    /\ RecurrenceField # ""

\* the raw-rule and the natural-language parts of C25: a raw rule is the
\* single rule of the event, unchanged, and a daily/weekly until field is
\* translated
C25_RecognisedFieldsTranslated ==
    SubmittedWithRecurrence =>
        LET rule == InsertCalls[1].body.recurrence IN
        /\ startswith(upper(RecurrenceField), "RRULE:") => rule = <<RecurrenceField>>
        /\ RecurrenceField \in DOMAIN Translated
              => rule = <<Translated[RecurrenceField]>>

\* C25: every recurrence field for which an event is submitted gives that
\* event one recurrence rule: the field itself when it is a raw rule, its
\* translation when it is a daily/weekly until field
C25_AcceptedRecurrenceYieldsRule ==
    /\ C25_RecognisedFieldsTranslated
    /\ SubmittedWithRecurrence => Len(InsertCalls[1].body.recurrence) = 1


\* ------------------------------------------------------------------- C26
\* the four conditions of the claim on a request whose body is a JSON object
AcceptedMention(r) ==
    /\ r.body = "object"
    /\ r.type # "url_verification"
    /\ r.ts.k = "int" /\ Abs(r.now - r.ts.v) <= ReplayWindow
    /\ r.sig = "valid"
    /\ r.event.k = "dict" /\ r.event.type = "app_mention"

\* C26: slack_events schedules a task exactly when the payload is not a
\* url_verification payload, the timestamp is within the window, the
\* signature verifies and event.type is app_mention; it then schedules one
\* handle_app_mention task, queued with that event, whatever was delivered
\* before, the same event included
C26_ScheduledIffAcceptedMention ==
    /\ [](req # NoReq =>
            /\ scheduled \in {0, 1}
            /\ scheduled = 1 <=> AcceptedMention(req)
            /\ AcceptedMention(req) =>
                 /\ Len(tasks) >= 1
                 /\ tasks[Len(tasks)] = NewTask(req.event.ev))
    /\ [][IF AcceptedMention(req')
          THEN tasks' = Append(tasks, NewTask(req'.event.ev))
          ELSE tasks' = tasks]_vars

\* the same mention event has been delivered twice and scheduled twice
C26_Witness ==
    /\ Len(tasks) = 2
    /\ tasks[1].event = tasks[2].event
    /\ AcceptedMention(req)
    /\ scheduled = 1


\* ------------------------------------------------------------------- C27
\* C27: whatever the interleaving of the calls, the step that starts a
\* collaboration run hands it agent_list as it is then: not None, of four
\* agents built by one gather, while none of the four agent fields is None
C27_EveryRunGetsFourAgents ==
    [][\A i \in TaskIds :
          tasks'[i].runs > tasks[i].runs =>
             /\ tasks'[i].team # NoList
             /\ tasks'[i].team = agent_list'
             /\ CompleteList(tasks'[i].team)
             /\ \A r \in RoleSet : agent_fields'[r] # NoAgent]_vars

\* two calls arrived while the orchestrator was uninitialized, each ran its
\* own gather, and both collaboration runs are under way
C27_Witness ==
    /\ Len(tasks) = 2
    /\ gathers = 2
    /\ tasks[1].pc = "run" /\ tasks[2].pc = "run"
    /\ tasks[1].inits = 1 /\ tasks[2].inits = 1
    /\ CompleteList(tasks[1].team) /\ CompleteList(tasks[2].team)
    /\ tasks[1].team # tasks[2].team


\* ------------------------------------------------------------------- C28
\* the gather of task i raises in this step
GatherRaises(i) == tasks[i].pc = "gather" /\ tasks'[i].pc \notin {"gather", "run"}

\* C28: a step in which the gather of a call raises assigns none of the four
\* agent fields, nor agent_list, nor the flag, however many of the four
\* constructions had completed; while no gather has returned, they are all
\* as __init__ left them
C28_FailedGatherAssignsNothing ==
    /\ [][\A i \in TaskIds :
            GatherRaises(i) =>
               /\ agent_fields' = agent_fields
               /\ agent_list' = agent_list
               /\ agents_initialized' = agents_initialized
               /\ assigned' = assigned]_vars
    /\ [](assigned = {} =>
            /\ \A r \in RoleSet : agent_fields[r] = NoAgent
            /\ agent_list = NoList
            /\ ~agents_initialized)

\* the only gather started so far has raised and has been turned into the
\* error string, and the fields, the list and the flag are as __init__ left them
C28_Witness ==
    /\ gathers = 1
    /\ \E i \in TaskIds :
         /\ tasks[i].inits = 1 /\ tasks[i].runs = 0
         /\ tasks[i].caught = "No time zone found"
    /\ \A r \in RoleSet : agent_fields[r] = NoAgent
    /\ agent_list = NoList
    /\ ~agents_initialized


\* ------------------------------------------------------------------- C29
\* insert_event was called with an input of neither 6 nor 7 fields
WrongFieldCount ==
    /\ effect.op = "insert_event"
    /\ Len(FieldsOf(invocation.args[1])) \notin {6, 7}

\* C29: insert_event on an input whose number of pipe-separated fields is
\* neither 6 nor 7 returns the "Invalid input. Expected format" string; no
\* Exception of a date, time or duration is caught, the calendar service is
\* not asked for and no calendar call is issued, whatever the service would do
C29_WrongFieldCountRejectedFirst ==
    WrongFieldCount =>
        /\ ~effect.raised
        /\ effect.value = Str(InvalidInput)
        /\ startswith(effect.value.v, "Invalid input. Expected format")
        /\ effect.caught = "-"
        /\ effect.calls = <<>>

\* an input of eight fields, none of them a date, has been rejected on an
\* adapter whose service could not have been obtained
C29_Witness ==
    /\ WrongFieldCount
    /\ invocation.args[1] = "a | b | c | d | e | f | g | h"
    /\ invocation.w.service = "invalid_grant"
    /\ effect.value = Str(InvalidInput)
    /\ effect.calls = <<>>


\* ------------------------------------------------------------------- C30
\* weather.py 225: the window is refused for a series of n hours
WindowRefused(win, n) == win.start >= n \/ win.end <= win.start

\* the window lies in a series of n hours and is not empty
WindowInRange(win, n) == 0 <= win.start /\ win.start < win.end /\ win.end <= n

\* check_rain_probability was answered with an hourly series
RainAnswered ==
    /\ effect.op = "check_rain_probability"
    /\ effect.caught = "-"
    /\ ~invocation.w.api.v.hourly_empty

\* C30: for every hour of the clock, every period and a series of any length,
\* the call answered with the series either returns "No forecast data
\* available for <period>", or its window lies within the series and is not
\* empty (0 <= start < end <= length) and it reports from the hours
\* start..end-1 of the series: a maximum attained there, at the peak time
C30_WindowRefusedOrInRange ==
    RainAnswered =>
              LET hourly == HourlyOf(invocation.w)
                  n == Len(hourly.time)
                  win == rain_window(invocation.args[2], invocation.current_hour, n)
              IN
              IF WindowRefused(win, n)
              THEN /\ ~effect.reported
                   /\ effect.value = Str("No forecast data available for " \o win.name)
              ELSE /\ effect.reported
                   /\ WindowInRange(win, n)
                   /\ \E k \in (win.start + 1)..win.end :
                         /\ hourly.precipitation_probability[k] = effect.figures.max_prob
                         /\ hourly.time[k] = effect.figures.peak_time

\* asked at midnight about tomorrow with a series of 30 hours, the call
\* reports from the six hours the series has of tomorrow
C30_Witness ==
    /\ RainAnswered
    /\ effect.reported
    /\ invocation.args[2] = "tomorrow" /\ invocation.current_hour = 0
    /\ Len(HourlyOf(invocation.w).time) = 30
    /\ rain_window("tomorrow", 0, 30).start = 24
    /\ rain_window("tomorrow", 0, 30).end = 30

====
